---- MODULE Spec2Model ----
(***************************************************************************)
(* A model of the straight-skeleton engine of ixt-skeleton-component.      *)
(*                                                                         *)
(* Objects with identity (Vertex, Edge, Polygon) live in three heaps, each *)
(* a sequence indexed by the object's id; 0 is null.  A Vector is a value  *)
(* <<x, y>> of integers: no method of Vector writes to its operand.        *)
(*                                                                         *)
(* Arithmetic is exact.  A unit bisector normalize(normalize(a) +          *)
(* normalize(b)) is kept as the pair [a, b] it was computed from, and      *)
(* every use of it (the sign of a cross product with it, the point where   *)
(* its line meets an edge) is computed from that pair.  The 1e-10          *)
(* tolerances of the source compare quantities that, on the integer        *)
(* inputs of the model, are either exactly 0 or far above the tolerance;   *)
(* the one quantity in between, the sine of 1.2e-16 that Math.sin gives    *)
(* for an angle of pi, is modelled by its sign (straightAngleSine).        *)
(***************************************************************************)
EXTENDS Integers, Sequences, FiniteSets, TLC

VARIABLES
    vertexObjs,         \* heap of Vertex objects
    edgeObjs,           \* heap of Edge objects
    polygonObjs,        \* heap of Polygon objects
    input,              \* the caller's Polygon (id), 0 when there is none
    wavefront,          \* Skeleton.wavefront (Skeleton.ts): [polygons, times]
    eventQueue,         \* EventQueue.events
    edges,              \* Skeleton.edges (Skeleton.ts)
    wavefrontPolygons,  \* Skeleton.wavefrontPolygons (logging variant)
    angleBisectorEdges, \* Skeleton.angleBisectorEdges (logging variant)
    skeletonEdges,      \* Skeleton.skeletonEdges (logging variant)
    variant,            \* which Skeleton class was built: Skeleton.ts or logging
    pc,                 \* where the caller is
    last,               \* what the last call did (its return value and effect)
    nextEventId,        \* number of Event objects created so far
    calls               \* number of calls made by the caller so far

vars == <<vertexObjs, edgeObjs, polygonObjs, input, wavefront, eventQueue,
          edges, wavefrontPolygons, angleBisectorEdges, skeletonEdges,
          variant, pc, last, nextEventId, calls>>

heapVars == <<vertexObjs, edgeObjs, polygonObjs>>

(***************************************************************************)
(* Bounds of the model.                                                    *)
(***************************************************************************)
MaxTime == 5
MaxQueueCalls == 4
MaxCalls == 2
MaxEvents == 30
MaxWavefrontCalls == 2
MaxTargetTime == 2

(***************************************************************************)
(* Vector                                                                  *)
(***************************************************************************)
plus(a, b) == <<a[1] + b[1], a[2] + b[2]>>

minus(a, b) == <<a[1] - b[1], a[2] - b[2]>>

scale(a, k) == <<a[1] * k, a[2] * k>>

dot(a, b) == a[1] * b[1] + a[2] * b[2]

cross(a, b) == a[1] * b[2] - a[2] * b[1]

\* length() squared: the model compares lengths by their squares
lengthSq(a) == a[1] * a[1] + a[2] * a[2]

\* normalize() throws exactly when length() === 0
normalizeThrows(a) == lengthSq(a) = 0

sign(num) == IF num < 0 THEN -1 ELSE IF num > 0 THEN 1 ELSE 0

Abs(n) == IF n < 0 THEN -n ELSE n

(***************************************************************************)
(* Helpers on sequences and integers                                       *)
(***************************************************************************)
RECURSIVE Gcd(_, _)
Gcd(m, n) == IF n = 0 THEN m ELSE Gcd(n, m % n)

\* the integer square root of n, rounded down, by bisection on lo..hi
RECURSIVE SqrtBetween(_, _, _)
SqrtBetween(n, lo, hi) ==
    IF lo >= hi THEN lo
    ELSE LET mid == (lo + hi + 1) \div 2
         IN  IF mid * mid <= n THEN SqrtBetween(n, mid, hi)
             ELSE SqrtBetween(n, lo, mid - 1)

IsqrtFloor(n) == SqrtBetween(n, 0, IF n < 46340 THEN n ELSE 46340)

IsSquare(n) == IsqrtFloor(n) * IsqrtFloor(n) = n

RECURSIVE Flatten(_)
Flatten(ss) == IF ss = <<>> THEN <<>> ELSE Head(ss) \o Flatten(Tail(ss))

includes(s, x) == \E i \in 1..Len(s) : s[i] = x

\* indexOf / findIndex(v => v === x), counted from 1; 0 for -1
indexOf(s, x) ==
    IF includes(s, x)
    THEN CHOOSE i \in 1..Len(s) : s[i] = x /\ \A j \in 1..(i - 1) : s[j] # x
    ELSE 0

\* s.splice(index, count), index counted from 1
RemoveAt(s, index, count) ==
    SubSeq(s, 1, index - 1) \o SubSeq(s, index + count, Len(s))

(***************************************************************************)
(* Vertex                                                                  *)
(***************************************************************************)
\* new Vector(0, 0): the bisector of a Vertex that was never initialized
ZeroBisector == [a |-> <<0, 0>>, b |-> <<0, 0>>]

Vertex(position) ==
    [position |-> position, prev |-> 0, next |-> 0, bisector |-> ZeroBisector]

toPrev(vh, v) == minus(vh[vh[v].prev].position, vh[v].position)

toNext(vh, v) == minus(vh[vh[v].next].position, vh[v].position)

isReflexThrows(vh, v) == vh[v].prev = 0 \/ vh[v].next = 0

isReflex(vh, v) == cross(toPrev(vh, v), toNext(vh, v)) < 0

(***************************************************************************)
(* Edge                                                                    *)
(***************************************************************************)
Edge(v1, v2) == [v1 |-> v1, v2 |-> v2]

edgeVector(vh, eh, e) == minus(vh[eh[e].v2].position, vh[eh[e].v1].position)

\* v1.isReflex() || v2.isReflex(): the second is not evaluated when the
\* first is true
hasReflexEndpointThrows(vh, eh, e) ==
    \/ isReflexThrows(vh, eh[e].v1)
    \/ (~isReflex(vh, eh[e].v1) /\ isReflexThrows(vh, eh[e].v2))

hasReflexEndpoint(vh, eh, e) ==
    isReflex(vh, eh[e].v1) \/ isReflex(vh, eh[e].v2)

\* an isAdjacent that looks at the two endpoints only
isAdjacentToEndpoint(vh, eh, e, vertex) ==
    vertex = eh[e].v1 \/ vertex = eh[e].v2

isAdjacent(vh, eh, e, vertex) ==
    \/ vertex = eh[e].v1
    \/ vertex = eh[e].v2
    \/ vertex = vh[eh[e].v1].next
    \/ vertex = vh[eh[e].v1].prev
    \/ vertex = vh[eh[e].v2].next
    \/ vertex = vh[eh[e].v2].prev

\* Edge.clone(): a new Edge on the same two Vertex objects
cloneEdge(eh, e) == Edge(eh[e].v1, eh[e].v2)

(***************************************************************************)
(* Polygon                                                                 *)
(***************************************************************************)
\* the three normalize() calls of the bisector computation: one of them
\* throws when a neighbour coincides with the vertex or when the two unit
\* vectors cancel
bisectorThrows(vh, v) ==
    \/ normalizeThrows(toPrev(vh, v))
    \/ normalizeThrows(toNext(vh, v))
    \/ (cross(toPrev(vh, v), toNext(vh, v)) = 0
        /\ dot(toPrev(vh, v), toNext(vh, v)) < 0)

\* initialize(), first loop: prev and next of every vertex of the sequence
linkVertices(vh, vs) ==
    LET n == Len(vs)
    IN  [v \in 1..Len(vh) |->
            IF includes(vs, v)
            THEN LET i == CHOOSE k \in 1..n :
                            vs[k] = v /\ \A j \in (k + 1)..n : vs[j] # v
                 IN  [vh[v] EXCEPT !.prev = vs[IF i = 1 THEN n ELSE i - 1],
                                   !.next = vs[IF i = n THEN 1 ELSE i + 1]]
            ELSE vh[v]]

\* the second loop without the wrap-around of (i + 1) % n
createEdgesOpen(vs) ==
    [i \in 1..Len(vs) |-> Edge(vs[i], vs[IF i = Len(vs) THEN i ELSE i + 1])]

\* initialize(), second loop: n new Edge objects
createEdges(vs) ==
    [i \in 1..Len(vs) |-> Edge(vs[i], vs[IF i = Len(vs) THEN 1 ELSE i + 1])]

\* initialize(), third loop: the vertices of vs that throw in normalize()
failingVertices(linked, vs) ==
    {i \in 1..Len(vs) : bisectorThrows(linked, vs[i])}

\* initialize(), third loop: the first done vertices of vs get their bisector
withBisectors(linked, vs, done) ==
    [v \in 1..Len(linked) |->
        IF \E i \in 1..done : vs[i] = v
        THEN [linked[v] EXCEPT !.bisector =
                [a |-> toPrev(linked, v), b |-> toNext(linked, v)]]
        ELSE linked[v]]

\* initialize() after its first loop.  When a normalize() throws at the k-th
\* vertex the links and the edge list are already rebuilt and the vertices
\* before k have their new bisector.
initializeLinked(linked, eh, vs, failing) ==
    [threw |-> failing # {},
     vertexObjs |->
        withBisectors(linked, vs,
            IF failing = {} THEN Len(vs)
            ELSE (CHOOSE i \in failing : \A j \in failing : i <= j) - 1),
     edgeObjs |-> eh \o createEdges(vs),
     edges |-> [i \in 1..Len(vs) |-> Len(eh) + i]]

initializeOn(linked, eh, vs) ==
    initializeLinked(linked, eh, vs, failingVertices(linked, vs))

\* initialize() on the vertex sequence vs: [threw, vertexObjs, edgeObjs,
\* edges]
initialize(vh, eh, vs) == initializeOn(linkVertices(vh, vs), eh, vs)

\* the Polygon the constructor leaves, r being what initialize() did
polygonOf(vh, eh, ph, n, r) ==
    IF n < 3 \/ r.threw
    THEN [threw |-> TRUE, vertexObjs |-> vh, edgeObjs |-> eh,
          polygonObjs |-> ph, polygon |-> 0]
    ELSE [threw |-> FALSE, vertexObjs |-> r.vertexObjs,
          edgeObjs |-> r.edgeObjs,
          polygonObjs |-> Append(ph, [vertices |-> [i \in 1..n |-> Len(vh) + i],
                                      edges |-> r.edges]),
          polygon |-> Len(ph) + 1]

\* new Polygon(points): [threw, vertexObjs, edgeObjs, polygonObjs, polygon].
\* A constructor that throws leaves nothing the caller can reach.
newPolygon(vh, eh, ph, points) ==
    polygonOf(vh, eh, ph, Len(points),
        initialize(vh \o [i \in 1..Len(points) |-> Vertex(points[i])], eh,
                   [i \in 1..Len(points) |-> Len(vh) + i]))

positions(vh, vs) == [i \in 1..Len(vs) |-> vh[vs[i]].position]

\* a clone() that builds the new Polygon on the Vertex and Edge objects of
\* the source
cloneSharing(vh, eh, ph, p) ==
    [threw |-> Len(ph[p].vertices) < 3, vertexObjs |-> vh, edgeObjs |-> eh,
     polygonObjs |-> Append(ph, ph[p]), polygon |-> Len(ph) + 1]

clone(vh, eh, ph, p) == newPolygon(vh, eh, ph, positions(vh, ph[p].vertices))

\* the four orientation signs of the edges es[i] and es[j]
edgesCross(vh, eh, e1, e2) ==
    LET v1 == vh[eh[e1].v1].position
        v2 == vh[eh[e1].v2].position
        v3 == vh[eh[e2].v1].position
        v4 == vh[eh[e2].v2].position
        d1 == sign(cross(minus(v4, v3), minus(v1, v3)))
        d2 == sign(cross(minus(v4, v3), minus(v2, v3)))
        d3 == sign(cross(minus(v2, v1), minus(v3, v1)))
        d4 == sign(cross(minus(v2, v1), minus(v4, v1)))
    IN  d1 # d2 /\ d3 # d4

isSimple(vh, eh, ph, p) ==
    LET es == ph[p].edges
    IN  \A i \in 1..Len(es) : \A j \in (i + 2)..Len(es) :
            (i = 1 /\ j = Len(es)) \/ ~edgesCross(vh, eh, es[i], es[j])

(***************************************************************************)
(* Event and EventQueue                                                    *)
(***************************************************************************)
NoEvent == [type |-> "undefined", id |-> 0, time |-> 0, edge |-> 0,
            vertex |-> 0, intersection |-> <<0, 0>>]

\* the index findIndex(e => e.time > event.time) returns, 0 for -1
findIndexLater(events, time) ==
    IF \E i \in 1..Len(events) : events[i].time > time
    THEN CHOOSE i \in 1..Len(events) :
            /\ events[i].time > time
            /\ \A j \in 1..(i - 1) : ~(events[j].time > time)
    ELSE 0

\* events.splice(index, 0, event), index counted from 1
InsertAt(s, index, x) ==
    SubSeq(s, 1, index - 1) \o <<x>> \o SubSeq(s, index, Len(s))

addAlwaysPushes(events, event) == Append(events, event)

addBeforeEqualTimes(events, event) ==
    LET index == IF \E i \in 1..Len(events) : events[i].time >= event.time
                 THEN CHOOSE i \in 1..Len(events) :
                        /\ events[i].time >= event.time
                        /\ \A j \in 1..(i - 1) : ~(events[j].time >= event.time)
                 ELSE 0
    IN  IF index = 0 THEN Append(events, event)
        ELSE InsertAt(events, index, event)

add(events, event) ==
    LET index == findIndexLater(events, event.time)
    IN  IF index = 0 THEN Append(events, event)
        ELSE InsertAt(events, index, event)

\* poll(): [ret, events]; shift() of an empty array returns undefined
poll(events) ==
    IF events = <<>> THEN [ret |-> NoEvent, events |-> <<>>]
    ELSE [ret |-> Head(events), events |-> Tail(events)]

\* a peek() that looks at the other end of the array
peekLast(events) == IF events = <<>> THEN NoEvent ELSE events[Len(events)]

peek(events) == IF events = <<>> THEN NoEvent ELSE events[1]

isEmpty(events) == Len(events) = 0

size(events) == Len(events)

(***************************************************************************)
(* A stored bisector [a, b] stands for the unit vector                     *)
(* normalize(normalize(a) + normalize(b)).                                 *)
(***************************************************************************)
\* the sign of x / sqrt(p) + y / sqrt(q), for p, q > 0: when the signs of x
\* and y differ, x^2 * q is compared with y^2 * p, both divided by their
\* common factors first
signOfSum(x, p, y, q) ==
    IF sign(x) = sign(y) \/ y = 0 THEN sign(x)
    ELSE IF x = 0 THEN sign(y)
    ELSE LET g == Gcd(Abs(x), Abs(y))
             h == Gcd(p, q)
             l == (x \div g) * (x \div g) * (q \div h)
             r == (y \div g) * (y \div g) * (p \div h)
         IN  IF l > r THEN sign(x) ELSE IF l < r THEN sign(y) ELSE 0

\* whether the bisector has a rational direction: normalize(a) +
\* normalize(b) is parallel to a * |b|^2 + b * |a| * |b|
rationalDirection(bisector) ==
    IsSquare(lengthSq(bisector.a) * lengthSq(bisector.b))

\* the shortest integer vector along a bisector of rational direction
bisectorDirection(bisector) ==
    IF bisector = ZeroBisector THEN <<0, 0>>
    ELSE LET s == plus(scale(bisector.a, lengthSq(bisector.b)),
                       scale(bisector.b,
                             IsqrtFloor(lengthSq(bisector.a)
                                        * lengthSq(bisector.b))))
             g == Gcd(Abs(s[1]), Abs(s[2]))
         IN  <<s[1] \div g, s[2] \div g>>

\* the sign of cross(e, bisector), which is the sign of
\* Angle.between(e, bisector).sin()
crossSign(e, bisector) ==
    IF bisector = ZeroBisector THEN 0
    ELSE IF rationalDirection(bisector)
    THEN sign(cross(e, bisectorDirection(bisector)))
    ELSE signOfSum(cross(e, bisector.a), lengthSq(bisector.a),
                   cross(e, bisector.b), lengthSq(bisector.b))

\* a point off the integer grid, kept as the expression it comes from; it
\* equals no point of the grid
OffGrid(p1, p2, p3, bisector) ==
    <<p1[1], p1[2], p2[1], p2[2], p3[1], p3[2],
      bisector.a[1], bisector.a[2], bisector.b[1], bisector.b[2]>>

\* where the source returns null (parallel lines, t < 0 or t > 1), from the
\* signs of the denominator of t, of its numerator and of
\* numerator - denominator
outsideEdge(denominatorSign, numeratorSign, differenceSign) ==
    \/ denominatorSign = 0
    \/ numeratorSign * denominatorSign < 0
    \/ differenceSign * denominatorSign > 0

intersectionFound(p1, p2, p3, bisector) ==
    ~outsideEdge(0 - crossSign(minus(p1, p2), bisector),
                 0 - crossSign(minus(p1, p3), bisector),
                 0 - crossSign(minus(p2, p3), bisector))

\* p1 + t * (p2 - p1) for t = numerator / denominator, denominator > 0
pointAt(p1, p2, numerator, denominator, offGrid) ==
    IF /\ (numerator * (p2[1] - p1[1])) % denominator = 0
       /\ (numerator * (p2[2] - p1[2])) % denominator = 0
    THEN <<p1[1] + (numerator * (p2[1] - p1[1])) \div denominator,
           p1[2] + (numerator * (p2[2] - p1[2])) \div denominator>>
    ELSE offGrid

\* the intersection for a bisector of direction b
pointAlong(p1, p2, p3, b, offGrid) ==
    pointAt(p1, p2,
            IF cross(minus(p1, p2), b) < 0
            THEN 0 - cross(minus(p1, p3), b) ELSE cross(minus(p1, p3), b),
            Abs(cross(minus(p1, p2), b)), offGrid)

intersectionPoint(p1, p2, p3, bisector) ==
    IF cross(minus(p1, p2), minus(p1, p3)) = 0 THEN p3
    ELSE IF rationalDirection(bisector)
    THEN pointAlong(p1, p2, p3, bisectorDirection(bisector),
                    OffGrid(p1, p2, p3, bisector))
    ELSE OffGrid(p1, p2, p3, bisector)

\* The line-line intersection of Skeleton.calculateBisectorIntersection,
\* Skeleton.calculateIntersection and SplitEvent.calculateCurrentIntersection:
\* p1, p2 the edge's endpoints, p3 the vertex, p4 = p3 + bisector, and
\* t = numerator / denominator.  [found, point]; found is FALSE where the
\* source returns null.
lineIntersection(p1, p2, p3, bisector) ==
    IF intersectionFound(p1, p2, p3, bisector)
    THEN [found |-> TRUE, point |-> intersectionPoint(p1, p2, p3, bisector)]
    ELSE [found |-> FALSE, point |-> <<0, 0>>]

(***************************************************************************)
(* Event times.  The queue only compares times, and every queued time is   *)
(* positive, so an event carries 8 * time^2, which is an integer: a split  *)
(* time is the distance to an integer point, and a collapse time is        *)
(* c1 * c2 / (|b1| * c2 + |b2| * c1), ci = cross(edge, bi), bi the         *)
(* bisector direction at endpoint i (edge.length() cancels against the     *)
(* normalization of the edge direction).                                   *)
(***************************************************************************)
timeKeyOfDistance(v) == 8 * lengthSq(v)

\* the square of |b1| * c2 + |b2| * c1
squareOfSum(b1, b2, c1, c2) ==
    lengthSq(b1) * c2 * c2 + lengthSq(b2) * c1 * c1
    + 2 * c1 * c2 * IsqrtFloor(lengthSq(b1) * lengthSq(b2))

\* length / (1 / sin1 + 1 / sin2) from the signs s1, s2 of the sines, the
\* bisector directions b1, b2 and ci = cross(edge, bi)
collapseTime(s1, s2, b1, b2, c1, c2) ==
    IF s1 = 0 \/ s2 = 0
    THEN [positive |-> FALSE, time |-> 0, sineNearZero |-> TRUE]
    ELSE IF s1 < 0 /\ s2 < 0
    THEN [positive |-> FALSE, time |-> 0, sineNearZero |-> FALSE]
    ELSE IF /\ s1 * s2 * signOfSum(c2 * lengthSq(b1), lengthSq(b1),
                                   c1 * lengthSq(b2), lengthSq(b2)) > 0
            /\ squareOfSum(b1, b2, c1, c2) > 0
    THEN [positive |-> TRUE, sineNearZero |-> FALSE,
          time |-> (8 * c1 * c1 * c2 * c2) \div squareOfSum(b1, b2, c1, c2)]
    ELSE [positive |-> FALSE, time |-> 0, sineNearZero |-> FALSE]

\* The sign of Angle.between(ev, b).sin() when b is exactly opposite to ev
\* (a vertex whose two edges fold back on each other): the cross product is
\* a signed zero, atan2 gives pi or -pi after its sign, and Math.sin of that
\* is 1.2e-16 or -1.2e-16.  The zero is ex * 0 - ey * bx: -0 for an edge
\* pointing in -x or +y, +0 for one pointing in +x or -y or along a
\* diagonal (in other directions the rounding of the two products decides).
straightAngleSine(ev) ==
    IF ev[2] = 0 THEN sign(ev[1])
    ELSE IF ev[1] = 0 THEN 0 - sign(ev[2])
    ELSE 1

\* the key of a time of about 1e-16, which is below every other queued time
LeastTime == 1

\* A sine is exactly 0 when the bisector is along the edge (or is the zero
\* vector): 1 / sin is infinite and the time is 0 or NaN.  It is 1.2e-16 in
\* magnitude when the bisector is opposite to the edge: 1 / sin is 8e15 in
\* magnitude and the time has the sign of that sine.
collapseTimeAlong(ev, s1, s2, b1, b2) ==
    IF (s1 = 0 /\ dot(ev, b1) >= 0) \/ (s2 = 0 /\ dot(ev, b2) >= 0)
    THEN [positive |-> FALSE, time |-> 0, sineNearZero |-> TRUE]
    ELSE IF s1 = 0 \/ s2 = 0
    THEN [positive |-> straightAngleSine(ev) > 0, time |-> LeastTime,
          sineNearZero |-> TRUE]
    ELSE collapseTime(s1, s2, b1, b2, cross(ev, b1), cross(ev, b2))

\* Skeleton.calculateEdgeCollapseTime: [positive, time, sineNearZero].
\* positive: time > 0 && isFinite(time).  sineNearZero: one of the two sines
\* is 0.  The key is exact when |b1| * |b2| is an integer (every rectilinear
\* corner) and rounded otherwise.
calculateEdgeCollapseTime(vh, eh, e) ==
    collapseTimeAlong(edgeVector(vh, eh, e),
        crossSign(edgeVector(vh, eh, e), vh[eh[e].v1].bisector),
        crossSign(edgeVector(vh, eh, e), vh[eh[e].v2].bisector),
        bisectorDirection(vh[eh[e].v1].bisector),
        bisectorDirection(vh[eh[e].v2].bisector))

EdgeEvent(time, edge) ==
    [NoEvent EXCEPT !.type = "EdgeEvent", !.time = time, !.edge = edge]

SplitEvent(time, vertex, edge, intersection) ==
    [NoEvent EXCEPT !.type = "SplitEvent", !.time = time, !.edge = edge,
                    !.vertex = vertex, !.intersection = intersection]

\* A time is an integer or NaN (kept as a number no input uses); the source
\* only compares times, and every comparison with NaN is false.
NaN == 0 - 99

lessThan(x, y) == x # NaN /\ y # NaN /\ x < y

lessOrEqual(x, y) == x # NaN /\ y # NaN /\ x <= y

\* Infinity, kept as a number above every time the model computes
Infinity == 2147483647

isFinite(time) == time # NaN /\ time # Infinity

\* the constructor of Event throws: time < 0 or !isFinite(time)
EventThrows(time) == lessThan(time, 0) \/ ~isFinite(time)

\* a constructor of EdgeEvent that looks at the time only
EdgeEventChecksTimeOnly(vh, eh, time, edge) == EventThrows(time)

\* the constructor of EdgeEvent throws
EdgeEventThrows(vh, eh, time, edge) ==
    \/ EventThrows(time)
    \/ hasReflexEndpointThrows(vh, eh, edge)
    \/ hasReflexEndpoint(vh, eh, edge)

\* a constructor of SplitEvent that accepts an adjacent edge
SplitEventIgnoresAdjacency(vh, eh, time, vertex, edge) ==
    \/ EventThrows(time)
    \/ isReflexThrows(vh, vertex)
    \/ ~isReflex(vh, vertex)

\* the constructor of SplitEvent throws
SplitEventThrows(vh, eh, time, vertex, edge) ==
    \/ EventThrows(time)
    \/ isReflexThrows(vh, vertex)
    \/ ~isReflex(vh, vertex)
    \/ isAdjacent(vh, eh, edge, vertex)

\* the events get their identities in creation order
numbered(events, first) ==
    [i \in 1..Len(events) |-> [events[i] EXCEPT !.id = first + i - 1]]

RECURSIVE addAll(_, _)
addAll(queue, events) ==
    IF events = <<>> THEN queue
    ELSE addAll(add(queue, Head(events)), Tail(events))

\* candidate generation that queues an event whatever the time is
edgeEventWhateverTime(t, edge) == <<EdgeEvent(t.time, edge)>>

\* time > 0 && isFinite(time): one new EdgeEvent, or none
edgeEventIfPositive(t, edge) ==
    IF t.positive THEN <<EdgeEvent(t.time, edge)>> ELSE <<>>

\* the edge events initializeEvents() creates, in creation order
edgeCandidates(vh, eh, es) ==
    Flatten([i \in 1..Len(es) |->
        IF ~hasReflexEndpoint(vh, eh, es[i])
        THEN edgeEventIfPositive(calculateEdgeCollapseTime(vh, eh, es[i]),
                                 es[i])
        ELSE <<>>])

calculateBisectorIntersection(vh, eh, vertex, edge) ==
    lineIntersection(vh[eh[edge].v1].position, vh[eh[edge].v2].position,
                     vh[vertex].position, vh[vertex].bisector)

calculateSplitTime(vh, vertex, intersection) ==
    timeKeyOfDistance(minus(vh[vertex].position, intersection))

\* intersection && time > 0: one new SplitEvent, or none
splitEventIfHit(vh, vertex, edge, hit) ==
    IF hit.found /\ calculateSplitTime(vh, vertex, hit.point) > 0
    THEN <<SplitEvent(calculateSplitTime(vh, vertex, hit.point),
                      vertex, edge, hit.point)>>
    ELSE <<>>

\* a findSplitEvents that tries every edge, the adjacent ones included
findSplitEventsOnAnyEdge(vh, eh, es, vertex) ==
    Flatten([i \in 1..Len(es) |->
        splitEventIfHit(vh, vertex, es[i],
            calculateBisectorIntersection(vh, eh, vertex, es[i]))])

\* findSplitEvents(vertex)
findSplitEvents(vh, eh, es, vertex) ==
    Flatten([i \in 1..Len(es) |->
        IF ~isAdjacent(vh, eh, es[i], vertex)
        THEN splitEventIfHit(vh, vertex, es[i],
                calculateBisectorIntersection(vh, eh, vertex, es[i]))
        ELSE <<>>])

\* initializeEvents(): the events added to the queue, in the order added
initializeEvents(vh, eh, polygon) ==
    edgeCandidates(vh, eh, polygon.edges)
    \o Flatten([i \in 1..Len(polygon.vertices) |->
            IF isReflex(vh, polygon.vertices[i])
            THEN findSplitEvents(vh, eh, polygon.edges, polygon.vertices[i])
            ELSE <<>>])

(***************************************************************************)
(* Wavefront                                                               *)
(***************************************************************************)
\* the Wavefront the constructor leaves, c being original.clone()
wavefrontOf(vh, eh, ph, simple, c) ==
    IF ~simple \/ c.threw
    THEN [threw |-> TRUE, vertexObjs |-> vh, edgeObjs |-> eh,
          polygonObjs |-> ph,
          wavefront |-> [polygons |-> <<>>, times |-> <<>>]]
    ELSE [threw |-> FALSE, vertexObjs |-> c.vertexObjs,
          edgeObjs |-> c.edgeObjs, polygonObjs |-> c.polygonObjs,
          wavefront |-> [polygons |-> <<c.polygon>>, times |-> <<0>>]]

\* a constructor that stores the original polygon itself, not a clone of it
newWavefrontOnOriginal(vh, eh, ph, original) ==
    wavefrontOf(vh, eh, ph, isSimple(vh, eh, ph, original),
                [threw |-> FALSE, vertexObjs |-> vh, edgeObjs |-> eh,
                 polygonObjs |-> ph, polygon |-> original])

\* new Wavefront(original): [threw, vertexObjs, edgeObjs, polygonObjs,
\* wavefront]
newWavefront(vh, eh, ph, original) ==
    wavefrontOf(vh, eh, ph, isSimple(vh, eh, ph, original),
                clone(vh, eh, ph, original))

\* getCurrentPolygon(): the id of the last polygon of the history
getCurrentPolygon(wf) == wf.polygons[Len(wf.polygons)]

\* "... not found in current polygon": thrown before anything is written
notFound(vh, eh, ph) ==
    [threw |-> TRUE, vertexObjs |-> vh, edgeObjs |-> eh, polygonObjs |-> ph]

\* the polygon current with its vertices replaced by vs and initialize()
\* run on it, r being what initialize() did
reinitialized(ph, current, vs, r) ==
    [threw |-> r.threw, vertexObjs |-> r.vertexObjs, edgeObjs |-> r.edgeObjs,
     polygonObjs |-> [ph EXCEPT ![current] =
                        [vertices |-> vs, edges |-> r.edges]]]

\* handleEdgeEvent(event) from the two indexes on: vertices.splice(
\* vertexIndex, 2), then initialize()
spliceCollapsed(vh, eh, ph, current, vertexIndex, edgeIndex) ==
    IF vertexIndex = 0 \/ edgeIndex = 0 THEN notFound(vh, eh, ph)
    ELSE reinitialized(ph, current,
            RemoveAt(ph[current].vertices, vertexIndex, 2),
            initialize(vh, eh,
                       RemoveAt(ph[current].vertices, vertexIndex, 2)))

\* handleEdgeEvent(event): [threw, vertexObjs, edgeObjs, polygonObjs]
handleEdgeEvent(vh, eh, ph, wf, event) ==
    spliceCollapsed(vh, eh, ph, getCurrentPolygon(wf),
        indexOf(ph[getCurrentPolygon(wf)].vertices, eh[event.edge].v1),
        indexOf(ph[getCurrentPolygon(wf)].edges, event.edge))

\* a handleSplitEvent that puts the new Vertex in before the split vertex
spliceSplitBefore(vh, eh, ph, current, event, edgeIndex, vertexIndex) ==
    IF edgeIndex = 0 \/ vertexIndex = 0 THEN notFound(vh, eh, ph)
    ELSE reinitialized(ph, current,
            InsertAt(ph[current].vertices, vertexIndex, Len(vh) + 1),
            initialize(Append(vh, Vertex(event.intersection)),
                       Append(eh, Edge(event.vertex, Len(vh) + 1)),
                       InsertAt(ph[current].vertices, vertexIndex,
                                Len(vh) + 1)))

\* handleSplitEvent(event) from the two indexes on: a new Vertex at the
\* intersection goes in after the split vertex, then initialize()
spliceSplit(vh, eh, ph, current, event, edgeIndex, vertexIndex) ==
    IF edgeIndex = 0 \/ vertexIndex = 0 THEN notFound(vh, eh, ph)
    ELSE reinitialized(ph, current,
            InsertAt(ph[current].vertices, vertexIndex + 1, Len(vh) + 1),
            initialize(Append(vh, Vertex(event.intersection)),
                       Append(eh, Edge(event.vertex, Len(vh) + 1)),
                       InsertAt(ph[current].vertices, vertexIndex + 1,
                                Len(vh) + 1)))

\* handleSplitEvent(event): [threw, vertexObjs, edgeObjs, polygonObjs]
handleSplitEvent(vh, eh, ph, wf, event) ==
    spliceSplit(vh, eh, ph, getCurrentPolygon(wf), event,
        indexOf(ph[getCurrentPolygon(wf)].edges, event.edge),
        indexOf(ph[getCurrentPolygon(wf)].vertices, event.vertex))

\* validateState(), the checks on the current polygon
validPolygon(vh, eh, ph, current) ==
    /\ \A i \in 1..Len(ph[current].vertices) :
        /\ vh[ph[current].vertices[i]].prev # 0
        /\ vh[ph[current].vertices[i]].next # 0
    /\ \A i \in 1..Len(ph[current].edges) :
        /\ includes(ph[current].vertices, eh[ph[current].edges[i]].v1)
        /\ includes(ph[current].vertices, eh[ph[current].edges[i]].v2)
    /\ isSimple(vh, eh, ph, current)

\* validateState()
validateState(vh, eh, ph, wf) ==
    /\ Len(wf.polygons) = Len(wf.times)
    /\ \A i \in 2..Len(wf.times) :
        ~lessOrEqual(wf.times[i], wf.times[i - 1])
    /\ validPolygon(vh, eh, ph, getCurrentPolygon(wf))

(***************************************************************************)
(* EdgeEvent and SplitEvent                                                *)
(***************************************************************************)
\* EdgeEvent.isStillValid(wavefront)
edgeEventIsStillValid(vh, eh, ph, wf, event) ==
    LET currentPolygon == ph[getCurrentPolygon(wf)]
    IN  /\ includes(currentPolygon.edges, event.edge)
        /\ includes(currentPolygon.vertices, eh[event.edge].v1)
        /\ includes(currentPolygon.vertices, eh[event.edge].v2)
        /\ ~hasReflexEndpoint(vh, eh, event.edge)

\* SplitEvent.calculateCurrentIntersection(polygon)
calculateCurrentIntersection(vh, eh, event) ==
    lineIntersection(vh[eh[event.edge].v1].position,
                     vh[eh[event.edge].v2].position,
                     vh[event.vertex].position, vh[event.vertex].bisector)

\* SplitEvent.isStillValid(wavefront)
splitEventIsStillValid(vh, eh, ph, wf, event) ==
    LET currentPolygon == ph[getCurrentPolygon(wf)]
    IN  /\ includes(currentPolygon.vertices, event.vertex)
        /\ includes(currentPolygon.edges, event.edge)
        /\ isReflex(vh, event.vertex)
        /\ ~isAdjacent(vh, eh, event.edge, event.vertex)
        /\ calculateCurrentIntersection(vh, eh, event).found
        /\ calculateCurrentIntersection(vh, eh, event).point
            = event.intersection

isStillValid(vh, eh, ph, wf, event) ==
    IF event.type = "EdgeEvent"
    THEN edgeEventIsStillValid(vh, eh, ph, wf, event)
    ELSE splitEventIsStillValid(vh, eh, ph, wf, event)

\* what process() did when the event was still valid, r being what the
\* handler did
processApplied(r) ==
    [applied |-> TRUE, threw |-> r.threw, vertexObjs |-> r.vertexObjs,
     edgeObjs |-> r.edgeObjs, polygonObjs |-> r.polygonObjs]

\* a process() without revalidation, in the handler as well: the new Vertex
\* of a SplitEvent goes in at findIndex(...) + 1 whatever findIndex returned
processUnchecked(vh, eh, ph, wf, event) ==
    IF event.type = "EdgeEvent"
    THEN processApplied(handleEdgeEvent(vh, eh, ph, wf, event))
    ELSE processApplied(
            reinitialized(ph, getCurrentPolygon(wf),
                InsertAt(ph[getCurrentPolygon(wf)].vertices,
                    indexOf(ph[getCurrentPolygon(wf)].vertices, event.vertex)
                        + 1, Len(vh) + 1),
                initialize(Append(vh, Vertex(event.intersection)),
                           Append(eh, Edge(event.vertex, Len(vh) + 1)),
                           InsertAt(ph[getCurrentPolygon(wf)].vertices,
                               indexOf(ph[getCurrentPolygon(wf)].vertices,
                                       event.vertex) + 1, Len(vh) + 1))))

\* event.process(wavefront): [applied, threw, vertexObjs, edgeObjs,
\* polygonObjs]; applied is FALSE when revalidation made it return early
process(vh, eh, ph, wf, event) ==
    IF ~isStillValid(vh, eh, ph, wf, event)
    THEN [applied |-> FALSE, threw |-> FALSE, vertexObjs |-> vh,
          edgeObjs |-> eh, polygonObjs |-> ph]
    ELSE IF event.type = "EdgeEvent"
    THEN processApplied(handleEdgeEvent(vh, eh, ph, wf, event))
    ELSE processApplied(handleSplitEvent(vh, eh, ph, wf, event))

(***************************************************************************)
(* The queue on its own: any interleaving of add, poll and peek, with      *)
(* events whose times the Event constructor accepts (finite, >= 0).        *)
(***************************************************************************)
NoCall == [op |-> "none", ret |-> NoEvent, before |-> <<>>]

InitQueue ==
    /\ vertexObjs = <<>>
    /\ edgeObjs = <<>>
    /\ polygonObjs = <<>>
    /\ input = 0
    /\ wavefront = [polygons |-> <<>>, times |-> <<>>]
    /\ eventQueue = <<>>
    /\ edges = <<>>
    /\ wavefrontPolygons = <<>>
    /\ angleBisectorEdges = <<>>
    /\ skeletonEdges = <<>>
    /\ variant = "none"
    /\ pc = "queue"
    /\ last = NoCall
    /\ nextEventId = 1
    /\ calls = 0

queueFrame == <<vertexObjs, edgeObjs, polygonObjs, input, wavefront, edges,
                wavefrontPolygons, angleBisectorEdges, skeletonEdges, variant,
                pc>>

QueueAdd ==
    /\ calls < MaxQueueCalls
    /\ \E t \in 0..MaxTime :
        LET event == [NoEvent EXCEPT !.type = "EdgeEvent",
                                     !.id = nextEventId, !.time = t]
        IN  /\ eventQueue' = add(eventQueue, event)
            /\ last' = [op |-> "add", ret |-> event, before |-> eventQueue]
    /\ nextEventId' = nextEventId + 1
    /\ calls' = calls + 1
    /\ UNCHANGED queueFrame

QueuePoll ==
    /\ calls < MaxQueueCalls
    /\ eventQueue' = poll(eventQueue).events
    /\ last' = [op |-> "poll", ret |-> poll(eventQueue).ret,
                before |-> eventQueue]
    /\ calls' = calls + 1
    /\ UNCHANGED <<queueFrame, nextEventId>>

QueuePeek ==
    /\ calls < MaxQueueCalls
    /\ last' = [op |-> "peek", ret |-> peek(eventQueue), before |-> eventQueue]
    /\ calls' = calls + 1
    /\ UNCHANGED <<queueFrame, nextEventId, eventQueue>>

NextQueue == QueueAdd \/ QueuePoll \/ QueuePeek

SpecQueue == InitQueue /\ [][NextQueue]_vars

\* C3: every poll returns an event whose time is the minimum of the times
\* held in the queue at that moment.
C3_PollReturnsMinimum ==
    (last.op = "poll" /\ last.before # <<>>) =>
        /\ \E i \in 1..Len(last.before) : last.before[i] = last.ret
        /\ \A i \in 1..Len(last.before) : last.ret.time <= last.before[i].time

\* adds at times 5, 1, 3 (ids 1, 2, 3) are held as 1, 3, 5 and 1 is polled
C3_Witness ==
    /\ last.op = "poll"
    /\ Len(last.before) = 3
    /\ last.before[1].time = 1 /\ last.before[1].id = 2
    /\ last.before[2].time = 3 /\ last.before[2].id = 3
    /\ last.before[3].time = 5 /\ last.before[3].id = 1
    /\ last.ret.time = 1

\* C4: among events of equal time, poll returns them in the order in which
\* they were added (ids count the adds).
C4_TiesPolledInInsertionOrder ==
    (last.op = "poll" /\ last.before # <<>>) =>
        \A i \in 1..Len(last.before) :
            last.before[i].time = last.ret.time =>
                last.ret.id <= last.before[i].id

\* two events of the polled time were queued, and the earlier add came out
C4_Witness ==
    /\ last.op = "poll"
    /\ \E i \in 1..Len(last.before) :
        /\ last.before[i].time = last.ret.time
        /\ last.before[i].id > last.ret.id

(***************************************************************************)
(* Skeleton (logging variant): construction                                *)
(***************************************************************************)
\* validateInputPolygon(polygon) throws
validateInputPolygonThrows(vh, eh, ph, polygon) ==
    \/ Len(ph[polygon].vertices) < 3
    \/ ~isSimple(vh, eh, ph, polygon)
    \/ \E i \in 1..Len(ph[polygon].vertices) :
        isReflexThrows(vh, ph[polygon].vertices[i])

\* calculateBisector(vertex) of the logging variant: the first vector is
\* position - prev.position, not prev.position - position
loggingCalculateBisector(vh, v) ==
    [a |-> minus(vh[v].position, vh[vh[v].prev].position), b |-> toNext(vh, v)]

\* the three normalize() calls of calculateBisector
bisectorPairThrows(bisector) ==
    \/ normalizeThrows(bisector.a)
    \/ normalizeThrows(bisector.b)
    \/ (cross(bisector.a, bisector.b) = 0
        /\ dot(bisector.a, bisector.b) < 0)

loggingCalculateBisectorThrows(vh, v) ==
    bisectorPairThrows(loggingCalculateBisector(vh, v))

\* vertex.position.plus(bisector.scale(10)), kept as the expression
bisectorEnd(position, bisector) ==
    <<position[1], position[2], bisector.a[1], bisector.a[2],
      bisector.b[1], bisector.b[2]>>

\* computeInitialBisectors(polygon): two new Vertex objects and one new Edge
\* per vertex.  [threw, vertexObjs, edgeObjs, angleBisectorEdges]
computeInitialBisectors(vh, eh, vs) ==
    [threw |-> \E i \in 1..Len(vs) :
                    isReflexThrows(vh, vs[i])
                    \/ loggingCalculateBisectorThrows(vh, vs[i]),
     vertexObjs |-> vh \o Flatten([i \in 1..Len(vs) |->
        <<Vertex(vh[vs[i]].position),
          Vertex(bisectorEnd(vh[vs[i]].position,
                             loggingCalculateBisector(vh, vs[i])))>>]),
     edgeObjs |-> eh \o [i \in 1..Len(vs) |->
        Edge(Len(vh) + 2 * i - 1, Len(vh) + 2 * i)],
     angleBisectorEdges |-> [i \in 1..Len(vs) |-> Len(eh) + i]]

\* computeInitialEdgeEvents(polygon): [threw, events]; it throws when a sine
\* is within the tolerance of 0
computeInitialEdgeEvents(vh, eh, es) ==
    [threw |-> \E i \in 1..Len(es) :
                    /\ ~hasReflexEndpoint(vh, eh, es[i])
                    /\ calculateEdgeCollapseTime(vh, eh, es[i]).sineNearZero,
     events |-> edgeCandidates(vh, eh, es)]

\* calculateIntersection(vertex, bisector, edge)
calculateIntersection(vh, eh, vertex, bisector, edge) ==
    lineIntersection(vh[eh[edge].v1].position, vh[eh[edge].v2].position,
                     vh[vertex].position, bisector)

distance(p1, p2) == timeKeyOfDistance(minus(p1, p2))

\* intersection && time > 0: one new SplitEvent, or none
loggingSplitEventIfHit(vh, vertex, edge, hit) ==
    IF hit.found /\ distance(vh[vertex].position, hit.point) > 0
    THEN <<SplitEvent(distance(vh[vertex].position, hit.point),
                      vertex, edge, hit.point)>>
    ELSE <<>>

\* computeInitialSplitEvents(polygon): the events added, in the order added
computeInitialSplitEvents(vh, eh, polygon) ==
    Flatten([i \in 1..Len(polygon.vertices) |->
        IF ~isReflex(vh, polygon.vertices[i]) THEN <<>>
        ELSE Flatten([j \in 1..Len(polygon.edges) |->
            IF isAdjacent(vh, eh, polygon.edges[j], polygon.vertices[i])
            THEN <<>>
            ELSE loggingSplitEventIfHit(vh, polygon.vertices[i],
                    polygon.edges[j],
                    calculateIntersection(vh, eh, polygon.vertices[i],
                        loggingCalculateBisector(vh, polygon.vertices[i]),
                        polygon.edges[j]))])])

\* the constructor from the clone c on: b is what computeInitialBisectors
\* did, e what computeInitialEdgeEvents did
loggingInitialized(vh, eh, ph, polygon, c, b, e) ==
    IF validateInputPolygonThrows(vh, eh, ph, polygon) \/ c.threw
       \/ b.threw \/ e.threw
    THEN [threw |-> TRUE, vertexObjs |-> vh, edgeObjs |-> eh,
          polygonObjs |-> ph, wavefrontPolygons |-> <<>>,
          angleBisectorEdges |-> <<>>, events |-> <<>>]
    ELSE [threw |-> FALSE, vertexObjs |-> b.vertexObjs,
          edgeObjs |-> b.edgeObjs, polygonObjs |-> c.polygonObjs,
          wavefrontPolygons |-> <<c.polygon>>,
          angleBisectorEdges |-> b.angleBisectorEdges,
          events |-> e.events
                     \o computeInitialSplitEvents(vh, eh, ph[polygon])]

loggingCloned(vh, eh, ph, polygon, c) ==
    loggingInitialized(vh, eh, ph, polygon, c,
        computeInitialBisectors(c.vertexObjs, c.edgeObjs,
                                ph[polygon].vertices),
        computeInitialEdgeEvents(vh, eh, ph[polygon].edges))

\* new Skeleton(polygon) of the logging variant: the snapshot is a clone of
\* the polygon, the events are computed on the polygon itself.
\* [threw, vertexObjs, edgeObjs, polygonObjs, wavefrontPolygons,
\* angleBisectorEdges, events]
loggingSkeleton(vh, eh, ph, polygon) ==
    loggingCloned(vh, eh, ph, polygon, clone(vh, eh, ph, polygon))

(***************************************************************************)
(* Skeleton (logging variant): the handlers of processEvents()             *)
(***************************************************************************)
\* validateEventState(event)
validateEventState(ph, wps, event) ==
    /\ wps # <<>>
    /\ includes(ph[wps[Len(wps)]].edges, event.edge)
    /\ event.type = "SplitEvent" =>
            includes(ph[wps[Len(wps)]].vertices, event.vertex)

\* what a handler of the logging variant did when it returned early
notApplied(vh, eh, ph) ==
    [applied |-> FALSE, threw |-> FALSE, vertexObjs |-> vh, edgeObjs |-> eh,
     polygonObjs |-> ph, pushed |-> <<>>]

\* what a handler of the logging variant did when it went on: the polygon
\* current has the vertices vs, r is what initialize() did, pushed the Edge
\* appended to skeletonEdges
loggingApplied(ph, current, vs, r, pushed) ==
    [applied |-> TRUE, threw |-> r.threw, vertexObjs |-> r.vertexObjs,
     edgeObjs |-> r.edgeObjs,
     polygonObjs |-> [ph EXCEPT ![current] =
                        [vertices |-> vs, edges |-> r.edges]],
     pushed |-> <<pushed>>]

\* vertices.filter(v => v !== v1 && v !== v2)
withoutEndpoints(eh, vs, edge) ==
    SelectSeq(vs, LAMBDA v : v # eh[edge].v1 /\ v # eh[edge].v2)

\* handleEdgeEvent(event) of the logging variant: [applied, threw, vertexObjs,
\* edgeObjs, polygonObjs, pushed]; pushed are the Edge objects appended to
\* skeletonEdges
loggingHandleEdgeEvent(vh, eh, ph, wps, event) ==
    IF ~validateEventState(ph, wps, event) THEN notApplied(vh, eh, ph)
    ELSE loggingApplied(ph, wps[Len(wps)],
            withoutEndpoints(eh, ph[wps[Len(wps)]].vertices, event.edge),
            initialize(vh, Append(eh, cloneEdge(eh, event.edge)),
                withoutEndpoints(eh, ph[wps[Len(wps)]].vertices, event.edge)),
            Len(eh) + 1)

\* vertices.splice(vertexIndex + 1, 0, newVertex)
withNewVertex(vs, vertex, newVertex) ==
    InsertAt(vs, indexOf(vs, vertex) + 1, newVertex)

\* handleSplitEvent(event) of the logging variant, same result: three new
\* Vertex objects (two for the skeleton edge, one for the polygon) and two
\* new Edge objects
loggingHandleSplitEvent(vh, eh, ph, wps, event) ==
    IF ~validateEventState(ph, wps, event) THEN notApplied(vh, eh, ph)
    ELSE loggingApplied(ph, wps[Len(wps)],
            withNewVertex(ph[wps[Len(wps)]].vertices, event.vertex,
                          Len(vh) + 3),
            initialize(
                vh \o <<Vertex(vh[event.vertex].position),
                        Vertex(event.intersection),
                        Vertex(event.intersection)>>,
                eh \o <<Edge(Len(vh) + 1, Len(vh) + 2),
                        Edge(event.vertex, Len(vh) + 3)>>,
                withNewVertex(ph[wps[Len(wps)]].vertices, event.vertex,
                              Len(vh) + 3)),
            Len(eh) + 1)

(***************************************************************************)
(* The caller's inputs (TestGeometries.ts and variations of them)          *)
(***************************************************************************)
\* TEST_GEOMETRIES.rectangle: 8 by 5, counter-clockwise
Rectangle == <<<<0, 0>>, <<8, 0>>, <<8, 5>>, <<0, 5>>>>

\* TEST_GEOMETRIES.complexPolygon
ComplexPolygon ==
    <<<<0, 70>>, <<0, 30>>, <<40, 30>>, <<40, 0>>, <<100, 0>>, <<100, 70>>>>

\* the complex polygon, clockwise
ClockwiseComplexPolygon ==
    <<<<100, 70>>, <<100, 0>>, <<40, 0>>, <<40, 30>>, <<0, 30>>, <<0, 70>>>>

UShape == <<<<0, 0>>, <<6, 0>>, <<6, 4>>, <<4, 4>>, <<4, 2>>, <<2, 2>>,
            <<2, 4>>, <<0, 4>>>>

\* the rectangle, clockwise
ClockwiseRectangle == <<<<0, 5>>, <<8, 5>>, <<8, 0>>, <<0, 0>>>>

\* self-intersecting
BowTie == <<<<0, 0>>, <<4, 4>>, <<4, 0>>, <<0, 4>>>>

\* fewer than three points
TwoPoints == <<<<0, 0>>, <<1, 0>>>>

\* a vertex on the segment between its neighbours
StraightCorner == <<<<0, 0>>, <<2, 0>>, <<4, 0>>, <<4, 3>>>>

\* two edges that overlap on the x axis, (0,0)-(4,0) and (2,0)-(6,0), joined
\* by the edge (4,0)-(2,0) that folds back between them; counter-clockwise
FoldedBase == <<<<0, 0>>, <<4, 0>>, <<2, 0>>, <<6, 0>>, <<3, 5>>>>

\* the same, clockwise
ClockwiseFoldedBase == <<<<0, 0>>, <<4, 0>>, <<2, 0>>, <<6, 0>>, <<3, 0 - 5>>>>

Catalogue == {Rectangle, ComplexPolygon, ClockwiseComplexPolygon, UShape,
              ClockwiseRectangle, BowTie, TwoPoints, StraightCorner,
              FoldedBase, ClockwiseFoldedBase}

(***************************************************************************)
(* What the queries show of the engine, by value                           *)
(***************************************************************************)
segments(vh, eh, es) ==
    [i \in 1..Len(es) |->
        <<vh[eh[es[i]].v1].position, vh[eh[es[i]].v2].position>>]

snapshots(vh, ph, ps) ==
    [i \in 1..Len(ps) |-> positions(vh, ph[ps[i]].vertices)]

EngineView ==
    [edges |-> segments(vertexObjs, edgeObjs, edges),
     polygons |-> snapshots(vertexObjs, polygonObjs, wavefront.polygons),
     times |-> wavefront.times,
     wavefrontPolygons |->
        snapshots(vertexObjs, polygonObjs, wavefrontPolygons),
     angleBisectorEdges |-> segments(vertexObjs, edgeObjs, angleBisectorEdges),
     skeletonEdges |-> segments(vertexObjs, edgeObjs, skeletonEdges)]

\* the record of a call: its name, what it returned, the engine's view before
\* it, whether it applied an event, whether it threw; the record of a loop
\* iteration also says whether the handler of the event threw
Call(op, ret, applied, threw) ==
    [op |-> op, ret |-> ret, before |-> EngineView, applied |-> applied,
     threw |-> threw]

engineVars == <<wavefront, eventQueue, edges, wavefrontPolygons,
                angleBisectorEdges, skeletonEdges>>

(***************************************************************************)
(* The engine: construction                                                *)
(***************************************************************************)
Init ==
    /\ vertexObjs = <<>>
    /\ edgeObjs = <<>>
    /\ polygonObjs = <<>>
    /\ input = 0
    /\ wavefront = [polygons |-> <<>>, times |-> <<>>]
    /\ eventQueue = <<>>
    /\ edges = <<>>
    /\ wavefrontPolygons = <<>>
    /\ angleBisectorEdges = <<>>
    /\ skeletonEdges = <<>>
    /\ variant = "none"
    /\ pc = "start"
    /\ last = NoCall
    /\ nextEventId = 1
    /\ calls = 0

\* the caller's new Polygon(points), r being what the constructor did
NewPolygonWith(r) ==
    /\ vertexObjs' = r.vertexObjs
    /\ edgeObjs' = r.edgeObjs
    /\ polygonObjs' = r.polygonObjs
    /\ input' = r.polygon
    /\ pc' = IF r.threw THEN "noPolygon" ELSE "polygon"
    /\ last' = Call("Polygon", r.polygon, FALSE, r.threw)

NewPolygon ==
    /\ pc = "start"
    /\ \E points \in Catalogue :
        NewPolygonWith(newPolygon(vertexObjs, edgeObjs, polygonObjs, points))
    /\ UNCHANGED <<engineVars, variant, nextEventId, calls>>

\* the queue and the event count after initializeEvents() created events
QueueRebuilt(events) ==
    /\ eventQueue' = addAll(<<>>, numbered(events, nextEventId))
    /\ nextEventId' = nextEventId + Len(events)

\* the constructor of Skeleton.ts, w being what new Wavefront(polygon) did
BuildWith(w) ==
    IF w.threw
    THEN /\ pc' = "buildThrew"
         /\ last' = Call("build", 0, FALSE, TRUE)
         /\ UNCHANGED <<heapVars, wavefront, eventQueue, nextEventId>>
    ELSE /\ pc' = "built"
         /\ vertexObjs' = w.vertexObjs
         /\ edgeObjs' = w.edgeObjs
         /\ polygonObjs' = w.polygonObjs
         /\ wavefront' = w.wavefront
         /\ QueueRebuilt(initializeEvents(w.vertexObjs, w.edgeObjs,
                w.polygonObjs[getCurrentPolygon(w.wavefront)]))
         /\ last' = Call("build", 0, FALSE, FALSE)

\* Skeleton.build(polygon) of Skeleton.ts: the constructor, which ends with
\* initializeEvents()
Build ==
    /\ pc = "polygon"
    /\ variant' = "Skeleton.ts"
    /\ BuildWith(newWavefront(vertexObjs, edgeObjs, polygonObjs, input))
    /\ UNCHANGED <<input, edges, wavefrontPolygons, angleBisectorEdges,
                   skeletonEdges, calls>>

\* the constructor of the logging variant, r being what it did
BuildLoggingWith(r) ==
    /\ pc' = IF r.threw THEN "buildThrew" ELSE "built"
    /\ vertexObjs' = r.vertexObjs
    /\ edgeObjs' = r.edgeObjs
    /\ polygonObjs' = r.polygonObjs
    /\ wavefrontPolygons' = r.wavefrontPolygons
    /\ angleBisectorEdges' = r.angleBisectorEdges
    /\ QueueRebuilt(r.events)
    /\ last' = Call("build", 0, FALSE, r.threw)

\* Skeleton.build(polygon) of the logging variant: the constructor, which
\* ends with initialize(polygon)
BuildLogging ==
    /\ pc = "polygon"
    /\ variant' = "logging"
    /\ BuildLoggingWith(loggingSkeleton(vertexObjs, edgeObjs, polygonObjs,
                                        input))
    /\ UNCHANGED <<input, wavefront, edges, skeletonEdges, calls>>

\* the iteration after event.process(wavefront): r is what process did,
\* valid what validateState() returned
ComputeChecked(polled, r, valid) ==
    /\ vertexObjs' = r.vertexObjs
    /\ edgeObjs' = r.edgeObjs
    /\ polygonObjs' = r.polygonObjs
    /\ IF r.threw \/ ~valid
       THEN /\ pc' = "threw"
            /\ eventQueue' = polled.events
            /\ UNCHANGED nextEventId
       ELSE /\ pc' = "computing"
            /\ QueueRebuilt(initializeEvents(r.vertexObjs, r.edgeObjs,
                    r.polygonObjs[getCurrentPolygon(wavefront)]))
    /\ last' = Call("event", polled.ret, r.applied, r.threw \/ ~valid)
                @@ [handlerThrew |-> r.threw]

ComputeProcessed(polled, r) ==
    ComputeChecked(polled, r,
        validateState(r.vertexObjs, r.edgeObjs, r.polygonObjs, wavefront))

\* One iteration of the loop of compute() (Skeleton.ts): poll, process,
\* validateState, updateEvents.  compute() has no catch: an exception ends
\* the call, with the rest of the queue left as it is.
ComputeIterate ==
    /\ variant = "Skeleton.ts"
    /\ pc \in {"built", "computing", "threw"}
    /\ eventQueue # <<>>
    /\ nextEventId <= MaxEvents
    /\ ComputeProcessed(poll(eventQueue),
            process(vertexObjs, edgeObjs, polygonObjs, wavefront,
                    poll(eventQueue).ret))
    /\ UNCHANGED <<input, wavefront, edges, wavefrontPolygons,
                   angleBisectorEdges, skeletonEdges, variant, calls>>

\* compute() finds the queue empty and returns
ComputeReturn ==
    /\ variant = "Skeleton.ts"
    /\ pc \in {"built", "computing", "threw"}
    /\ eventQueue = <<>>
    /\ pc' = "returned"
    /\ last' = Call("compute", 0, FALSE, FALSE)
    /\ UNCHANGED <<heapVars, input, engineVars, variant, nextEventId, calls>>

\* the iteration after the handler: r is what the handler did, c what
\* currentPolygon.clone() did
ProcessEventsStored(polled, r, c) ==
    /\ eventQueue' = polled.events
    /\ skeletonEdges' = skeletonEdges \o r.pushed
    /\ IF r.threw \/ c.threw
       THEN /\ vertexObjs' = r.vertexObjs
            /\ edgeObjs' = r.edgeObjs
            /\ polygonObjs' = r.polygonObjs
            /\ UNCHANGED wavefrontPolygons
       ELSE /\ vertexObjs' = c.vertexObjs
            /\ edgeObjs' = c.edgeObjs
            /\ polygonObjs' = c.polygonObjs
            /\ wavefrontPolygons' = Append(wavefrontPolygons, c.polygon)
    /\ last' = Call("event", polled.ret, r.applied, r.threw \/ c.threw)
                @@ [handlerThrew |-> r.threw]

ProcessEventsHandled(polled, r) ==
    ProcessEventsStored(polled, r,
        clone(r.vertexObjs, r.edgeObjs, r.polygonObjs,
              wavefrontPolygons[Len(wavefrontPolygons)]))

\* One iteration of the loop of processEvents() (logging variant): poll,
\* handle, store a clone of the current polygon; an exception is caught and
\* the loop goes on.  processEvents() is private and the class never calls
\* it: the action shows what the loop does once something runs it.
ProcessEventsIterate ==
    /\ variant = "logging"
    /\ pc \in {"built", "processing"}
    /\ eventQueue # <<>>
    /\ ProcessEventsHandled(poll(eventQueue),
            IF poll(eventQueue).ret.type = "EdgeEvent"
            THEN loggingHandleEdgeEvent(vertexObjs, edgeObjs, polygonObjs,
                    wavefrontPolygons, poll(eventQueue).ret)
            ELSE loggingHandleSplitEvent(vertexObjs, edgeObjs, polygonObjs,
                    wavefrontPolygons, poll(eventQueue).ret))
    /\ pc' = "processing"
    /\ UNCHANGED <<input, wavefront, edges, angleBisectorEdges, variant,
                   nextEventId, calls>>

\* processEvents() finds the queue empty and returns
ProcessEventsReturn ==
    /\ variant = "logging"
    /\ pc \in {"built", "processing"}
    /\ eventQueue = <<>>
    /\ pc' = "processed"
    /\ last' = Call("processEvents", 0, FALSE, FALSE)
    /\ UNCHANGED <<heapVars, input, engineVars, variant, nextEventId, calls>>

(***************************************************************************)
(* The engine: the queries, and what a caller can do with their results    *)
(***************************************************************************)
\* a returned value: the array it is (the engine's own "edges" array or a
\* fresh one) and the Edge and Polygon objects it holds
Returned(array, es, ps) == [array |-> array, edges |-> es, polygons |-> ps]

atRest == pc \in {"built", "returned", "threw", "processed"}

\* getEdges() of Skeleton.ts: return this.edges
GetEdges ==
    /\ variant = "Skeleton.ts" /\ atRest /\ calls < MaxCalls
    /\ last' = Call("getEdges", Returned("edges", edges, <<>>), FALSE, FALSE)
    /\ calls' = calls + 1
    /\ UNCHANGED <<heapVars, input, engineVars, variant, pc, nextEventId>>

\* Wavefront.getPolygonAtTime(time): the index of the latest state that is
\* not after time, 0 when there is none
latestAt(wf, time) ==
    LET found == {i \in 1..Len(wf.times) : lessOrEqual(wf.times[i], time)}
    IN  IF found = {} THEN 0 ELSE CHOOSE i \in found : \A j \in found : j <= i

\* getPolygonAtTime(time) from the index i on, c being polygons[i].clone()
GetWavefrontAtTimeWith(time, i, c) ==
    IF lessThan(time, 0) \/ i = 0 \/ c.threw
    THEN /\ last' = Call("getWavefrontAtTime",
                         Returned("fresh", <<>>, <<>>), FALSE, TRUE)
                     @@ [time |-> time]
         /\ UNCHANGED heapVars
    ELSE /\ vertexObjs' = c.vertexObjs
         /\ edgeObjs' = c.edgeObjs
         /\ polygonObjs' = c.polygonObjs
         /\ last' = Call("getWavefrontAtTime",
                         Returned("fresh", <<>>, <<c.polygon>>),
                         FALSE, FALSE)
                     @@ [time |-> time]

\* getWavefrontAtTime(time) of Skeleton.ts
GetWavefrontAtTime ==
    /\ variant = "Skeleton.ts" /\ atRest /\ calls < MaxCalls
    /\ \E time \in {0 - 1, 0, MaxTime} :
        GetWavefrontAtTimeWith(time, latestAt(wavefront, time),
            clone(vertexObjs, edgeObjs, polygonObjs,
                  wavefront.polygons[latestAt(wavefront, time)]))
    /\ calls' = calls + 1
    /\ UNCHANGED <<input, engineVars, variant, pc, nextEventId>>

\* the clones of a sequence of polygons from the clone c of the first and
\* the clones rest of the others
clonesJoined(c, rest) ==
    IF c.threw THEN [rest EXCEPT !.threw = TRUE]
    ELSE [rest EXCEPT !.polygons = <<c.polygon>> \o @]

RECURSIVE cloneAll(_, _, _, _)

cloneRest(c, ps) ==
    clonesJoined(c, cloneAll(c.vertexObjs, c.edgeObjs, c.polygonObjs, ps))

\* ps.map(p => p.clone()): [threw, vertexObjs, edgeObjs, polygonObjs,
\* polygons]
cloneAll(vh, eh, ph, ps) ==
    IF ps = <<>>
    THEN [threw |-> FALSE, vertexObjs |-> vh, edgeObjs |-> eh,
          polygonObjs |-> ph, polygons |-> <<>>]
    ELSE cloneRest(clone(vh, eh, ph, Head(ps)), Tail(ps))

\* getWavefrontPolygons(), r being what the clones did
GetWavefrontPolygonsWith(r) ==
    /\ vertexObjs' = r.vertexObjs
    /\ edgeObjs' = r.edgeObjs
    /\ polygonObjs' = r.polygonObjs
    /\ last' = Call("getWavefrontPolygons",
                    Returned("fresh", <<>>, r.polygons), FALSE, r.threw)

\* getWavefrontPolygons() of the logging variant
GetWavefrontPolygons ==
    /\ variant = "logging" /\ atRest /\ calls < MaxCalls
    /\ GetWavefrontPolygonsWith(
            cloneAll(vertexObjs, edgeObjs, polygonObjs, wavefrontPolygons))
    /\ calls' = calls + 1
    /\ UNCHANGED <<input, engineVars, variant, pc, nextEventId>>

\* es.map(e => e.clone()): Len(es) new Edge objects at the end of the heap
cloneEdges(eh, es) == [i \in 1..Len(es) |-> cloneEdge(eh, es[i])]

\* a getAngleBisectors() that hands out the stored edges and forgets them
GetAngleBisectorsConsuming ==
    /\ variant = "logging" /\ atRest /\ calls < MaxCalls
    /\ angleBisectorEdges' = <<>>
    /\ last' = Call("getAngleBisectors",
                    Returned("fresh", angleBisectorEdges, <<>>),
                    FALSE, FALSE)
    /\ calls' = calls + 1
    /\ UNCHANGED <<heapVars, input, wavefront, eventQueue, edges,
                   wavefrontPolygons, skeletonEdges, variant, pc,
                   nextEventId>>

\* getAngleBisectors() of the logging variant
GetAngleBisectors ==
    /\ variant = "logging" /\ atRest /\ calls < MaxCalls
    /\ edgeObjs' = edgeObjs \o cloneEdges(edgeObjs, angleBisectorEdges)
    /\ last' = Call("getAngleBisectors",
                    Returned("fresh",
                        [i \in 1..Len(angleBisectorEdges) |->
                            Len(edgeObjs) + i], <<>>),
                    FALSE, FALSE)
    /\ calls' = calls + 1
    /\ UNCHANGED <<vertexObjs, polygonObjs, input, engineVars, variant, pc,
                   nextEventId>>

\* getSkeletonEdges() of the logging variant
GetSkeletonEdges ==
    /\ variant = "logging" /\ atRest /\ calls < MaxCalls
    /\ edgeObjs' = edgeObjs \o cloneEdges(edgeObjs, skeletonEdges)
    /\ last' = Call("getSkeletonEdges",
                    Returned("fresh",
                        [i \in 1..Len(skeletonEdges) |-> Len(edgeObjs) + i],
                        <<>>),
                    FALSE, FALSE)
    /\ calls' = calls + 1
    /\ UNCHANGED <<vertexObjs, polygonObjs, input, engineVars, variant, pc,
                   nextEventId>>

Queries == {"getEdges", "getWavefrontAtTime", "getWavefrontPolygons",
            "getAngleBisectors", "getSkeletonEdges"}

\* the Vertex objects reachable from a returned value
reachableVertices(eh, ph, ret) ==
    {eh[ret.edges[i]].v1 : i \in 1..Len(ret.edges)}
    \cup {eh[ret.edges[i]].v2 : i \in 1..Len(ret.edges)}
    \cup UNION {{ph[ret.polygons[i]].vertices[j] :
                    j \in 1..Len(ph[ret.polygons[i]].vertices)} :
                i \in 1..Len(ret.polygons)}

\* a point no input uses
Elsewhere == <<0 - 1, 0 - 1>>

\* the caller writes the position of a Vertex it reached through the value
\* the last query returned
MutateVertex ==
    /\ last.op \in Queries /\ ~last.threw
    /\ \E v \in reachableVertices(edgeObjs, polygonObjs, last.ret) :
        vertexObjs' = [vertexObjs EXCEPT ![v].position = Elsewhere]
    /\ last' = Call("mutate", last.ret, FALSE, FALSE)
    /\ UNCHANGED <<edgeObjs, polygonObjs, input, engineVars, variant, pc,
                   nextEventId, calls>>

\* the caller swaps the endpoints of an Edge of the returned value
MutateEdge ==
    /\ last.op \in Queries /\ ~last.threw
    /\ \E i \in 1..Len(last.ret.edges) :
        edgeObjs' = [edgeObjs EXCEPT ![last.ret.edges[i]] =
                        Edge(@.v2, @.v1)]
    /\ last' = Call("mutate", last.ret, FALSE, FALSE)
    /\ UNCHANGED <<vertexObjs, polygonObjs, input, engineVars, variant, pc,
                   nextEventId, calls>>

\* the caller pushes an Edge of its own polygon onto the returned array
MutateArray ==
    /\ last.op \in Queries /\ ~last.threw
    /\ LET pushed == polygonObjs[input].edges[1]
       IN  /\ edges' = IF last.ret.array = "edges"
                       THEN Append(edges, pushed) ELSE edges
           /\ last' = Call("mutate",
                           [last.ret EXCEPT !.edges = Append(@, pushed)],
                           FALSE, FALSE)
    /\ UNCHANGED <<heapVars, input, wavefront, eventQueue, wavefrontPolygons,
                   angleBisectorEdges, skeletonEdges, variant, pc,
                   nextEventId, calls>>

\* the times a caller passes to the constructor of an event
EventTimes == {0 - 1, 0, 1, NaN, Infinity}

\* the caller constructs an EdgeEvent on an edge of its polygon
NewEdgeEvent ==
    /\ pc = "polygon"
    /\ \E time \in EventTimes :
       \E i \in 1..Len(polygonObjs[input].edges) :
        last' = Call("EdgeEvent",
                     EdgeEvent(time, polygonObjs[input].edges[i]), FALSE,
                     EdgeEventThrows(vertexObjs, edgeObjs, time,
                                     polygonObjs[input].edges[i]))
    /\ UNCHANGED <<heapVars, input, engineVars, variant, pc, nextEventId,
                   calls>>

\* the caller constructs a SplitEvent on a vertex and an edge of its polygon
NewSplitEvent ==
    /\ pc = "polygon"
    /\ \E time \in EventTimes :
       \E i \in 1..Len(polygonObjs[input].vertices) :
       \E j \in 1..Len(polygonObjs[input].edges) :
        last' = Call("SplitEvent",
                     SplitEvent(time, polygonObjs[input].vertices[i],
                         polygonObjs[input].edges[j],
                         vertexObjs[polygonObjs[input].vertices[i]].position),
                     FALSE,
                     SplitEventThrows(vertexObjs, edgeObjs, time,
                         polygonObjs[input].vertices[i],
                         polygonObjs[input].edges[j]))
    /\ UNCHANGED <<heapVars, input, engineVars, variant, pc, nextEventId,
                   calls>>

Next ==
    \/ NewPolygon
    \/ NewEdgeEvent
    \/ NewSplitEvent
    \/ Build
    \/ BuildLogging
    \/ ComputeIterate
    \/ ComputeReturn
    \/ ProcessEventsIterate
    \/ ProcessEventsReturn
    \/ GetEdges
    \/ GetWavefrontAtTime
    \/ GetWavefrontPolygons
    \/ GetAngleBisectors
    \/ GetSkeletonEdges
    \/ MutateVertex
    \/ MutateEdge
    \/ MutateArray

Spec == Init /\ [][Next]_vars

(***************************************************************************)
(* A Wavefront on its own: the caller builds a polygon and a Wavefront on  *)
(* it, then calls propagateToTime, handleEdgeEvent and handleSplitEvent in *)
(* any order, with events it constructs on the edges and vertices it can   *)
(* reach.                                                                  *)
(***************************************************************************)
InitWavefront ==
    /\ vertexObjs = <<>>
    /\ edgeObjs = <<>>
    /\ polygonObjs = <<>>
    /\ input = 0
    /\ wavefront = [polygons |-> <<>>, times |-> <<>>]
    /\ eventQueue = <<>>
    /\ edges = <<>>
    /\ wavefrontPolygons = <<>>
    /\ angleBisectorEdges = <<>>
    /\ skeletonEdges = <<>>
    /\ variant = "none"
    /\ pc = "start"
    /\ last = NoCall
    /\ nextEventId = 1
    /\ calls = 0

wavefrontFrame == <<input, eventQueue, edges, wavefrontPolygons,
                    angleBisectorEdges, skeletonEdges, variant, nextEventId>>

\* new Wavefront(original), w being what the constructor did
NewWavefrontWith(w) ==
    /\ vertexObjs' = w.vertexObjs
    /\ edgeObjs' = w.edgeObjs
    /\ polygonObjs' = w.polygonObjs
    /\ wavefront' = w.wavefront
    /\ pc' = IF w.threw THEN "noWavefront" ELSE "wavefront"
    /\ last' = Call("Wavefront", 0, FALSE, w.threw)

\* new Wavefront(original)
NewWavefront ==
    /\ pc = "polygon"
    /\ NewWavefrontWith(newWavefront(vertexObjs, edgeObjs, polygonObjs, input))
    /\ UNCHANGED <<wavefrontFrame, calls>>

\* the times a caller passes: a negative one, NaN, and 0..MaxTargetTime
TargetTimes == {0 - 1, NaN} \cup 0..MaxTargetTime

\* propagateToTime(targetTime), c being lastPolygon.clone()
PropagateToTimeWith(targetTime, lastTime, c) ==
    IF lessThan(targetTime, 0)
    THEN /\ last' = Call("propagateToTime", targetTime, FALSE, TRUE)
         /\ UNCHANGED <<heapVars, wavefront>>
    ELSE IF lessOrEqual(targetTime, lastTime)
    THEN /\ last' = Call("propagateToTime", targetTime, FALSE, FALSE)
         /\ UNCHANGED <<heapVars, wavefront>>
    ELSE IF c.threw
    THEN /\ last' = Call("propagateToTime", targetTime, FALSE, TRUE)
         /\ UNCHANGED <<heapVars, wavefront>>
    ELSE /\ vertexObjs' = c.vertexObjs
         /\ edgeObjs' = c.edgeObjs
         /\ polygonObjs' = c.polygonObjs
         /\ wavefront' = [polygons |-> Append(wavefront.polygons, c.polygon),
                          times |-> Append(wavefront.times, targetTime)]
         /\ last' = Call("propagateToTime", targetTime, TRUE, FALSE)

\* propagateToTime(targetTime)
PropagateToTime ==
    /\ pc = "wavefront" /\ calls < MaxWavefrontCalls
    /\ \E targetTime \in TargetTimes :
        PropagateToTimeWith(targetTime, wavefront.times[Len(wavefront.times)],
            clone(vertexObjs, edgeObjs, polygonObjs,
                  getCurrentPolygon(wavefront)))
    /\ calls' = calls + 1
    /\ UNCHANGED <<wavefrontFrame, pc>>

\* the Edge objects the caller can reach: those of its own polygon and those
\* of the polygon getCurrentPolygon() returns
callerEdges ==
    {polygonObjs[input].edges[i] : i \in 1..Len(polygonObjs[input].edges)}
    \cup {polygonObjs[getCurrentPolygon(wavefront)].edges[i] :
            i \in 1..Len(polygonObjs[getCurrentPolygon(wavefront)].edges)}

callerVertices ==
    {polygonObjs[getCurrentPolygon(wavefront)].vertices[i] :
        i \in 1..Len(polygonObjs[getCurrentPolygon(wavefront)].vertices)}

\* a handler of the Wavefront was called with event, r being what it did
Handled(op, event, r) ==
    /\ vertexObjs' = r.vertexObjs
    /\ edgeObjs' = r.edgeObjs
    /\ polygonObjs' = r.polygonObjs
    /\ last' = Call(op, event, TRUE, r.threw)

\* handleEdgeEvent(new EdgeEvent(1, edge)); the constructor accepts the edge
WavefrontHandleEdgeEvent ==
    /\ pc = "wavefront" /\ calls < MaxWavefrontCalls
    /\ \E edge \in callerEdges :
        /\ ~hasReflexEndpointThrows(vertexObjs, edgeObjs, edge)
        /\ ~hasReflexEndpoint(vertexObjs, edgeObjs, edge)
        /\ Handled("handleEdgeEvent",
                [EdgeEvent(1, edge) EXCEPT !.id = nextEventId],
                handleEdgeEvent(vertexObjs, edgeObjs, polygonObjs, wavefront,
                                EdgeEvent(1, edge)))
    /\ calls' = calls + 1
    /\ UNCHANGED <<wavefrontFrame, wavefront, pc>>

\* handleSplitEvent(new SplitEvent(1, vertex, edge, hit.point)) when the
\* bisector of the vertex hits the edge at a point of the grid
HandledSplitAt(vertex, edge, hit) ==
    /\ hit.found /\ Len(hit.point) = 2
    /\ Handled("handleSplitEvent",
            [SplitEvent(1, vertex, edge, hit.point) EXCEPT !.id = nextEventId],
            handleSplitEvent(vertexObjs, edgeObjs, polygonObjs, wavefront,
                             SplitEvent(1, vertex, edge, hit.point)))

\* handleSplitEvent(new SplitEvent(1, vertex, edge, intersection)), the
\* intersection being where the vertex's bisector meets the edge; the
\* constructor accepts the vertex and the edge
WavefrontHandleSplitEvent ==
    /\ pc = "wavefront" /\ calls < MaxWavefrontCalls
    /\ \E vertex \in callerVertices, edge \in callerEdges :
        /\ ~isReflexThrows(vertexObjs, vertex)
        /\ isReflex(vertexObjs, vertex)
        /\ ~isAdjacent(vertexObjs, edgeObjs, edge, vertex)
        /\ HandledSplitAt(vertex, edge,
                calculateBisectorIntersection(vertexObjs, edgeObjs,
                                              vertex, edge))
    /\ calls' = calls + 1
    /\ UNCHANGED <<wavefrontFrame, wavefront, pc>>

\* getPolygonAtTime(time)
GetPolygonAtTime ==
    /\ pc = "wavefront" /\ calls < MaxWavefrontCalls
    /\ \E time \in TargetTimes :
        GetWavefrontAtTimeWith(time, latestAt(wavefront, time),
            clone(vertexObjs, edgeObjs, polygonObjs,
                  wavefront.polygons[latestAt(wavefront, time)]))
    /\ calls' = calls + 1
    /\ UNCHANGED <<wavefrontFrame, wavefront, pc>>

NextWavefront ==
    \/ NewPolygon
    \/ NewWavefront
    \/ PropagateToTime
    \/ GetPolygonAtTime
    \/ WavefrontHandleEdgeEvent
    \/ WavefrontHandleSplitEvent

SpecWavefront == InitWavefront /\ [][NextWavefront]_vars

(***************************************************************************)
(* The claims about the engine                                             *)
(***************************************************************************)
\* the finished-segment list of the variant that was built
finishedSegments(view) ==
    IF variant = "Skeleton.ts" THEN view.edges ELSE view.skeletonEdges

\* the snapshot history of the variant that was built
snapshotHistory(view) ==
    IF variant = "Skeleton.ts" THEN view.polygons ELSE view.wavefrontPolygons

\* C1: when Skeleton.build(polygon) returns without error the event loop has
\* run to completion: the candidate queue is empty.
C1_BuildLeavesQueueEmpty ==
    (last.op = "build" /\ ~last.threw) => eventQueue = <<>>

\* C2: for the counter-clockwise 8 by 5 rectangle, once the skeleton has been
\* computed the finished-segment list holds exactly one segment, horizontal,
\* of length 3, on the line y = 2.5.
C2_RectangleHasOneRidge ==
    (/\ pc \in {"returned", "processed"}
     /\ positions(vertexObjs, polygonObjs[input].vertices) = Rectangle) =>
        LET segs == finishedSegments(EngineView)
        IN  /\ Len(segs) = 1
            /\ segs[1][1][2] = segs[1][2][2]
            /\ 2 * segs[1][1][2] = 5
            /\ Abs(segs[1][1][1] - segs[1][2][1]) = 3

\* C5: an error raised while applying one event (by the handler or by the
\* state check after it) does not abort the event loop: the loop goes on
\* with the remaining candidates.
C5_ErrorDoesNotAbortLoop ==
    (last.op = "event" /\ last.threw) => pc \in {"computing", "processing"}

\* C6: processing an event whose revalidation fails has no effect: the
\* current polygon, the snapshot history and the segment list are as before,
\* and the handler raises no error.
C6_DroppedEventHasNoEffect ==
    (last.op = "event" /\ ~last.applied) =>
        /\ EngineView = last.before
        /\ ~last.handlerThrew

\* C7: no value returned by a query shares a mutable object with the
\* engine's state: a write through a returned value leaves what the queries
\* show unchanged.
C7_ResultsShareNothing ==
    last.op = "mutate" => EngineView = last.before

\* C8: an applied event appends exactly one segment to the skeleton output
\* (EdgeEvent: the endpoints of the collapsed edge; SplitEvent: the vertex's
\* position and the intersection), a dropped event appends none, and the
\* entries already in the list stay as they are.
C8_AppliedEventAppendsOneSegment ==
    last.op = "event" =>
        LET old == finishedSegments(last.before)
            new == finishedSegments(EngineView)
        IN  /\ Len(new) = Len(old) + (IF last.applied THEN 1 ELSE 0)
            /\ SubSeq(new, 1, Len(old)) = old
            /\ last.applied =>
                new[Len(new)] =
                    IF last.ret.type = "EdgeEvent"
                    THEN <<vertexObjs[edgeObjs[last.ret.edge].v1].position,
                           vertexObjs[edgeObjs[last.ret.edge].v2].position>>
                    ELSE <<vertexObjs[last.ret.vertex].position,
                           last.ret.intersection>>

\* C9: in every reachable state of a Wavefront the history has as many times
\* as polygons, the first time is 0, and the times are strictly increasing.
C9_HistoryTimesStrictlyIncrease ==
    pc = "wavefront" =>
        /\ Len(wavefront.times) = Len(wavefront.polygons)
        /\ wavefront.times[1] = 0
        /\ \A i \in 2..Len(wavefront.times) :
            lessThan(wavefront.times[i - 1], wavefront.times[i])

\* C10: event handling never modifies a snapshot already in the history: the
\* snapshot stored for time 0 keeps the vertex positions, in order, of the
\* input polygon.
C10_FirstSnapshotKeepsInput ==
    (pc \in {"built", "computing", "returned", "threw", "processing",
             "processed"}) =>
        snapshotHistory(EngineView)[1]
            = positions(vertexObjs, polygonObjs[input].vertices)
\* C11: getPolygonAtTime(t) returns, for every t >= 0, a copy of the snapshot
\* with the largest index i such that times[i] <= t; it raises an error
\* exactly when t < 0; and it never changes the history.
C11_GetPolygonAtTimeReturnsLatest ==
    last.op = "getWavefrontAtTime" =>
        /\ last.threw <=> lessThan(last.time, 0)
        /\ ~last.threw =>
            snapshots(vertexObjs, polygonObjs, last.ret.polygons)
                = <<last.before.polygons[latestAt(wavefront, last.time)]>>
        /\ EngineView = last.before
\* the Polygon objects of the snapshot history of the variant that was built
storedPolygons ==
    IF variant = "Skeleton.ts" THEN wavefront.polygons ELSE wavefrontPolygons

\* C12: every polygon state the engine stores or leaves as current after
\* processing an event satisfies isSimple() when it has at least 3 vertices.
C12_StoredPolygonsAreSimple ==
    last.op = "event" =>
        \A i \in 1..Len(storedPolygons) :
            Len(polygonObjs[storedPolygons[i]].vertices) >= 3 =>
                isSimple(vertexObjs, edgeObjs, polygonObjs, storedPolygons[i])
\* whether the point r, on the line through p and q, lies between them
between(p, q, r) ==
    /\ (p[1] <= r[1] /\ r[1] <= q[1]) \/ (q[1] <= r[1] /\ r[1] <= p[1])
    /\ (p[2] <= r[2] /\ r[2] <= q[2]) \/ (q[2] <= r[2] /\ r[2] <= p[2])

\* whether the closed segments v1-v2 and v3-v4 have a point in common
segmentsSharePoint(v1, v2, v3, v4) ==
    LET d1 == sign(cross(minus(v4, v3), minus(v1, v3)))
        d2 == sign(cross(minus(v4, v3), minus(v2, v3)))
        d3 == sign(cross(minus(v2, v1), minus(v3, v1)))
        d4 == sign(cross(minus(v2, v1), minus(v4, v1)))
    IN  \/ d1 * d2 < 0 /\ d3 * d4 < 0
        \/ d1 = 0 /\ between(v3, v4, v1)
        \/ d2 = 0 /\ between(v3, v4, v2)
        \/ d3 = 0 /\ between(v1, v2, v3)
        \/ d4 = 0 /\ between(v1, v2, v4)

\* whether two non-adjacent edges of the closed polygon through the points
\* ps have a point in common (the last edge is adjacent to the first)
selfIntersecting(ps) ==
    LET n == Len(ps)
        succ(i) == IF i = n THEN 1 ELSE i + 1
    IN  \E i \in 1..n : \E j \in (i + 2)..n :
            /\ ~(i = 1 /\ j = n)
            /\ segmentsSharePoint(ps[i], ps[succ(i)], ps[j], ps[succ(j)])

\* C13: construction fails when the input has fewer than 3 points or when two
\* non-adjacent edges of the input polygon intersect: a Polygon that was
\* constructed has at least 3 points, and a Skeleton that build returned was
\* built on a polygon none of whose non-adjacent edges intersect.
C13_ConstructionRejectsBadInput ==
    /\ (last.op = "Polygon" /\ ~last.threw) =>
            Len(polygonObjs[input].vertices) >= 3
    /\ (last.op = "build" /\ ~last.threw) =>
            /\ Len(polygonObjs[input].vertices) >= 3
            /\ ~selfIntersecting(
                    positions(vertexObjs, polygonObjs[input].vertices))
\* twice the signed area of the closed polygon through the points ps
\* (shoelace formula): positive for a counter-clockwise boundary
twiceArea(ps) ==
    LET RECURSIVE sum(_)
        sum(i) == IF i = 0 THEN 0
                  ELSE cross(ps[i], ps[IF i = Len(ps) THEN 1 ELSE i + 1])
                       + sum(i - 1)
    IN  sum(Len(ps))

\* whether the boundary turns right at ps[i], which for a counter-clockwise
\* simple polygon is an interior angle of more than 180 degrees
turnsRight(ps, i) ==
    cross(minus(ps[i], ps[IF i = 1 THEN Len(ps) ELSE i - 1]),
          minus(ps[IF i = Len(ps) THEN 1 ELSE i + 1], ps[i])) < 0

\* C14: for a counter-clockwise simple polygon, isReflex() is true exactly at
\* the vertices whose interior angle exceeds 180 degrees (so it is false at
\* every vertex of the counter-clockwise rectangle), and it raises an error
\* exactly for a vertex without a prev or next link.
C14_ReflexIsInteriorAngleOver180 ==
    (last.op = "Polygon" /\ ~last.threw) =>
        LET vs == polygonObjs[input].vertices
            ps == positions(vertexObjs, vs)
        IN  /\ \A i \in 1..Len(vs) : ~isReflexThrows(vertexObjs, vs[i])
            /\ (twiceArea(ps) > 0 /\ ~selfIntersecting(ps)) =>
                    \A i \in 1..Len(vs) :
                        isReflex(vertexObjs, vs[i]) <=> turnsRight(ps, i)
\* the events of the queue were all constructed by the call that just ended
justGenerated ==
    \/ last.op = "build" /\ ~last.threw
    \/ last.op = "event" /\ pc = "computing"

\* C15: constructing an EdgeEvent over an edge with a reflex endpoint always
\* fails with an error, so every EdgeEvent that exists referred, when it was
\* constructed, to an edge with two non-reflex endpoints.
C15_EdgeEventRejectsReflexEndpoint ==
    /\ last.op = "EdgeEvent" =>
            (hasReflexEndpoint(vertexObjs, edgeObjs, last.ret.edge)
                => last.threw)
    /\ justGenerated =>
            \A i \in 1..Len(eventQueue) :
                eventQueue[i].type = "EdgeEvent" =>
                    ~hasReflexEndpoint(vertexObjs, edgeObjs,
                                       eventQueue[i].edge)

\* an EdgeEvent with an acceptable time was refused for a reflex endpoint
C15_Witness ==
    /\ last.op = "EdgeEvent" /\ last.threw
    /\ ~EventThrows(last.ret.time)
    /\ hasReflexEndpoint(vertexObjs, edgeObjs, last.ret.edge)

\* C16: constructing a SplitEvent fails with an error when the vertex is not
\* reflex or when the edge is adjacent to the vertex, so every SplitEvent
\* that exists referred, when it was constructed, to a reflex vertex and an
\* edge not adjacent to it.
C16_SplitEventRejectsConvexOrAdjacent ==
    /\ last.op = "SplitEvent" =>
            ((\/ ~isReflex(vertexObjs, last.ret.vertex)
              \/ isAdjacent(vertexObjs, edgeObjs, last.ret.edge,
                            last.ret.vertex))
                => last.threw)
    /\ justGenerated =>
            \A i \in 1..Len(eventQueue) :
                eventQueue[i].type = "SplitEvent" =>
                    /\ isReflex(vertexObjs, eventQueue[i].vertex)
                    /\ ~isAdjacent(vertexObjs, edgeObjs, eventQueue[i].edge,
                                   eventQueue[i].vertex)

\* a SplitEvent with an acceptable time and a reflex vertex was refused for
\* an adjacent edge
C16_Witness ==
    /\ last.op = "SplitEvent" /\ last.threw
    /\ ~EventThrows(last.ret.time)
    /\ isReflex(vertexObjs, last.ret.vertex)
    /\ isAdjacent(vertexObjs, edgeObjs, last.ret.edge, last.ret.vertex)

\* C17: every event in the candidate queue has a finite, strictly positive
\* time: the constructor of Event rejects negative, infinite and NaN times,
\* and candidate generation discards a computed time that is <= 0 or not
\* finite.
C17_QueuedTimesArePositive ==
    /\ \A i \in 1..Len(eventQueue) :
            eventQueue[i].time > 0 /\ isFinite(eventQueue[i].time)
    /\ (last.op \in {"EdgeEvent", "SplitEvent"} /\ ~last.threw) =>
            last.ret.time >= 0 /\ isFinite(last.ret.time)

\* build queued an event and discarded the candidate of another edge whose
\* endpoints are not reflex, for its time
C17_Witness ==
    /\ last.op = "build" /\ ~last.threw /\ variant = "Skeleton.ts"
    /\ eventQueue # <<>>
    /\ \E i \in 1..Len(polygonObjs[getCurrentPolygon(wavefront)].edges) :
        LET e == polygonObjs[getCurrentPolygon(wavefront)].edges[i]
        IN  /\ ~hasReflexEndpoint(vertexObjs, edgeObjs, e)
            /\ ~calculateEdgeCollapseTime(vertexObjs, edgeObjs, e).positive
\* the edges of the caller's polygon that are candidates for an EdgeEvent
\* (no reflex endpoint) with a sine of the collapse formula below 1e-10
nearZeroSineEdges ==
    {i \in 1..Len(polygonObjs[input].edges) :
        /\ ~hasReflexEndpoint(vertexObjs, edgeObjs,
                              polygonObjs[input].edges[i])
        /\ calculateEdgeCollapseTime(vertexObjs, edgeObjs,
                polygonObjs[input].edges[i]).sineNearZero}

\* C18: a geometric degeneracy during candidate generation is silent and
\* recoverable: when a sine of the edge-collapse formula is below 1e-10 in
\* magnitude no event is queued for that edge, no error is raised and
\* construction succeeds.
C18_DegenerateCandidateIsSkipped ==
    last.op = "build" =>
        \A i \in nearZeroSineEdges :
            /\ ~last.threw
            /\ \A k \in 1..Len(eventQueue) :
                eventQueue[k].type = "EdgeEvent" =>
                    segments(vertexObjs, edgeObjs, <<eventQueue[k].edge>>)
                        # segments(vertexObjs, edgeObjs,
                                   <<polygonObjs[input].edges[i]>>)

\* the topology of polygon p: as many edges as vertices, edge i joins
\* vertex i to its cyclic successor, and the links follow the sequence
topologyConsistent(vh, eh, ph, p) ==
    LET vs == ph[p].vertices
        es == ph[p].edges
        n == Len(vs)
    IN  /\ Len(es) = n
        /\ \A i \in 1..n :
            /\ eh[es[i]].v1 = vs[i]
            /\ eh[es[i]].v2 = vs[IF i = n THEN 1 ELSE i + 1]
            /\ eh[es[i]].v1 # eh[es[i]].v2
            /\ includes(vs, eh[es[i]].v1)
            /\ includes(vs, eh[es[i]].v2)
            /\ vh[vs[i]].next = vs[IF i = n THEN 1 ELSE i + 1]
            /\ vh[vs[i]].prev = vs[IF i = 1 THEN n ELSE i - 1]

\* C19: after Polygon.initialize() completes (in the constructor, in the
\* clone the Wavefront takes, and in the current polygon after every applied
\* event whose handler returned) the topology is consistent: edges.length
\* equals vertices.length, edges[i] is (vertices[i], vertices[(i+1) mod n])
\* with two distinct endpoints that are members of the vertex sequence, and
\* next and prev follow the sequence cyclically.
C19_InitializeLeavesConsistentTopology ==
    /\ (last.op = "Polygon" /\ ~last.threw) =>
            topologyConsistent(vertexObjs, edgeObjs, polygonObjs, input)
    /\ (variant = "Skeleton.ts" /\ last.op = "build" /\ ~last.threw) =>
            topologyConsistent(vertexObjs, edgeObjs, polygonObjs,
                               getCurrentPolygon(wavefront))
    /\ (variant = "Skeleton.ts" /\ last.op = "event" /\ last.applied
            /\ ~last.handlerThrew) =>
            topologyConsistent(vertexObjs, edgeObjs, polygonObjs,
                               getCurrentPolygon(wavefront))

\* an applied event whose handler returned left a current polygon of at
\* least three vertices, fewer than the caller's polygon has
C19_Witness ==
    /\ variant = "Skeleton.ts" /\ last.op = "event" /\ last.applied
    /\ ~last.handlerThrew
    /\ Len(polygonObjs[getCurrentPolygon(wavefront)].vertices) >= 3
    /\ Len(polygonObjs[getCurrentPolygon(wavefront)].vertices)
        < Len(polygonObjs[input].vertices)

\* C20: Polygon.isSimple() returns false exactly when some pair of
\* non-adjacent edges (the first and the last being adjacent) have at least
\* one point in common, touching and collinear overlap included, and true
\* otherwise: on every polygon the caller constructed.
C20_IsSimpleExactlyWhenNoSharedPoint ==
    (last.op = "Polygon" /\ ~last.threw) =>
        (isSimple(vertexObjs, edgeObjs, polygonObjs, input)
            <=> ~selfIntersecting(
                    positions(vertexObjs, polygonObjs[input].vertices)))

\* whether the polygons p and q have the same vertex positions in the same
\* order, the same number of edges and the same isReflex() at every index
sameShape(vh, ph, p, q) ==
    /\ positions(vh, ph[p].vertices) = positions(vh, ph[q].vertices)
    /\ Len(ph[p].edges) = Len(ph[q].edges)
    /\ \A i \in 1..Len(ph[p].vertices) :
        isReflex(vh, ph[p].vertices[i]) = isReflex(vh, ph[q].vertices[i])

\* whether the polygons p and q have no Vertex and no Edge object in common
sharesNothing(ph, p, q) ==
    /\ \A i \in 1..Len(ph[p].vertices) : ~includes(ph[q].vertices, ph[p].vertices[i])
    /\ \A i \in 1..Len(ph[p].edges) : ~includes(ph[q].edges, ph[p].edges[i])

\* the caller's polygon as a caller sees it: its sequences, and the
\* positions, links and endpoints of its Vertex and Edge objects
sourceView ==
    IF input = 0 THEN <<>>
    ELSE <<polygonObjs[input],
           [i \in 1..Len(polygonObjs[input].vertices) |->
                <<vertexObjs[polygonObjs[input].vertices[i]].position,
                  vertexObjs[polygonObjs[input].vertices[i]].prev,
                  vertexObjs[polygonObjs[input].vertices[i]].next>>],
           [i \in 1..Len(polygonObjs[input].edges) |->
                edgeObjs[polygonObjs[input].edges[i]]]>>

\* the polygon the engine cloned from the caller's at construction
engineClone ==
    IF variant = "Skeleton.ts" THEN wavefront.polygons[1]
    ELSE wavefrontPolygons[1]

\* C21: Polygon.clone() yields an independent polygon with the same vertex
\* positions in the same order, the same edge count and the same isReflex
\* classification at every index as the source (the engine's clone of the
\* caller's polygon, when build returns); and no step of the engine on its
\* clones (construction, an event, a query that clones) changes the
\* sequences, positions, links or edges of the source.
C21_CloneIsEqualAndIndependent ==
    /\ []((last.op = "build" /\ ~last.threw) =>
            /\ sameShape(vertexObjs, polygonObjs, input, engineClone)
            /\ sharesNothing(polygonObjs, input, engineClone))
    /\ [][last'.op \in {"build", "event", "compute"} \cup Queries =>
            sourceView' = sourceView]_vars

\* an applied event has changed the clone the engine owns, which no longer
\* has the positions of the caller's polygon
C21_Witness ==
    /\ variant = "Skeleton.ts" /\ last.op = "event" /\ last.applied
    /\ positions(vertexObjs, polygonObjs[getCurrentPolygon(wavefront)].vertices)
        # positions(vertexObjs, polygonObjs[input].vertices)

\* the vertices of the sequence vs at the cyclic indexes i - 1 .. i + 2: the
\* endpoints of edge i and their neighbours on the boundary
aroundEdge(vs, i) ==
    {vs[((i - 1 + d + Len(vs)) % Len(vs)) + 1] : d \in {0 - 1, 0, 1, 2}}

\* C22: Edge.isAdjacent(vertex) is true exactly when the vertex is v1 or v2
\* of the edge or the current prev or next of v1 or of v2, which on the
\* caller's polygon are the vertices at the cyclic indexes i - 1 .. i + 2
\* for edge i; it is false for every other Vertex object, those of the
\* engine's clones included.  Stated when the polygon or a SplitEvent has
\* just been constructed and after each step of the engine.
C22_IsAdjacentExactlyAroundEdge ==
    (input # 0 /\ last.op \in {"Polygon", "SplitEvent", "build", "event"}) =>
        \A i \in 1..Len(polygonObjs[input].edges) :
        \A v \in 1..Len(vertexObjs) :
            isAdjacent(vertexObjs, edgeObjs, polygonObjs[input].edges[i], v)
                <=> v \in aroundEdge(polygonObjs[input].vertices, i)

\* the SplitEvent constructor has asked isAdjacent about a vertex that is a
\* boundary neighbour of an endpoint but not an endpoint, on a polygon that
\* also has a vertex not adjacent to that edge
C22_Witness ==
    /\ last.op = "SplitEvent"
    /\ last.ret.vertex # edgeObjs[last.ret.edge].v1
    /\ last.ret.vertex # edgeObjs[last.ret.edge].v2
    /\ isAdjacent(vertexObjs, edgeObjs, last.ret.edge, last.ret.vertex)
    /\ \E i \in 1..Len(polygonObjs[input].vertices) :
        ~isAdjacent(vertexObjs, edgeObjs, last.ret.edge,
                    polygonObjs[input].vertices[i])

\* what the last query returned, by value: the segments of the returned
\* edges, the vertex positions of the returned polygons, whether it threw
lastReturned ==
    IF last.op \in Queries
    THEN <<segments(vertexObjs, edgeObjs, last.ret.edges),
           snapshots(vertexObjs, polygonObjs, last.ret.polygons), last.threw>>
    ELSE <<>>

\* the argument of the last query
lastArgument ==
    IF last.op = "getWavefrontAtTime" THEN <<last.time>> ELSE <<>>

\* the objects of the three heaps, which a step may only add to
heapObjects == <<vertexObjs, edgeObjs, polygonObjs>>

\* whether the sequence s begins with the sequence t
startsWith(s, t) == Len(t) <= Len(s) /\ SubSeq(s, 1, Len(t)) = t

\* C23: a read-only query (getEdges, getWavefrontAtTime of Skeleton.ts;
\* getWavefrontPolygons, getAngleBisectors, getSkeletonEdges of the logging
\* variant) leaves the engine's stored state as it was (the same arrays of
\* the same objects, every existing object unchanged), and the same query
\* asked again right after, with the same argument, returns a structurally
\* equal result.
C23_QueriesAreReadOnlyAndRepeatable ==
    [][/\ last'.op \in Queries =>
            /\ engineVars' = engineVars
            /\ EngineView' = EngineView
            /\ \A h \in 1..3 : startsWith(heapObjects'[h], heapObjects[h])
       /\ (last.op \in Queries /\ last'.op = last.op
                /\ lastArgument' = lastArgument) =>
            lastReturned' = lastReturned]_vars

\* getAngleBisectors() was asked twice after build with no computation in
\* between: the heap holds an earlier copy of the first stored bisector edge
\* besides the one just returned
C23_Witness ==
    /\ variant = "logging" /\ pc = "built" /\ calls = 2
    /\ last.op = "getAngleBisectors"
    /\ last.ret.edges # <<>>
    /\ \E j \in 1..Len(edgeObjs) :
        /\ j < last.ret.edges[1]
        /\ ~includes(angleBisectorEdges, j)
        /\ edgeObjs[j] = edgeObjs[angleBisectorEdges[1]]

\* C24: EventQueue.peek() leaves the queue's contents and order unchanged
\* and returns exactly the event the next poll() returns; on an empty queue
\* peek() and poll() both return the empty result and leave the queue empty.
C24_PeekObservesWithoutRemoving ==
    /\ [](last.op = "peek" =>
            (eventQueue = last.before
                /\ (last.before = <<>> => last.ret = NoEvent)))
    /\ []((last.op = "poll" /\ last.before = <<>>) =>
            (last.ret = NoEvent /\ eventQueue = <<>>))
    /\ [][(last.op = "peek" /\ last'.op = "poll") => last'.ret = last.ret]_vars

\* peek() was called on a queue of at least two events with different times
C24_Witness ==
    /\ last.op = "peek"
    /\ Len(eventQueue) >= 2
    /\ eventQueue[1].time # eventQueue[Len(eventQueue)].time
    /\ last.ret = eventQueue[1]

(***************************************************************************)
(* The value classes on their own: Vector and Angle, and the bisector of   *)
(* one vertex as Polygon.initialize() computes it from them.  Here a       *)
(* number is a double, not an integer of the grid.  A component of a       *)
(* Vector is 0 or a signed power of two <<s, e>> (s * 2^e, s in {-1, 1});  *)
(* an angle is a whole number of quarter turns (k * pi / 2).  Only last    *)
(* changes.                                                                *)
(***************************************************************************)
\* the exponents of the smallest and of the largest finite power of two
MinExponent == 0 - 1074
MaxExponent == 1023

DoubleZero == <<0, 0>>

\* x * y: the product of two powers of two is exact until it leaves the
\* range, where it becomes 0 (2^-1075, half of the smallest double, rounds
\* to even) or Infinity (exponent MaxExponent + 1)
doubleTimes(x, y) ==
    IF x[1] = 0 \/ y[1] = 0 THEN DoubleZero
    ELSE IF x[2] + y[2] < MinExponent THEN DoubleZero
    ELSE IF x[2] + y[2] > MaxExponent THEN <<x[1] * y[1], MaxExponent + 1>>
    ELSE <<x[1] * y[1], x[2] + y[2]>>

\* length() === 0: Math.sqrt(x * x + y * y) is 0 exactly when both squares
\* are 0, the sum of two non-negative doubles being 0 only then
lengthIsZero(v) ==
    doubleTimes(v[1], v[1]) = DoubleZero /\ doubleTimes(v[2], v[2]) = DoubleZero

\* 2^-1074 is the smallest double; the square of 2^-537 is 2^-1074 and that
\* of 2^-538 is below it
Exponents == {MinExponent, 0 - 538, 0 - 537, 0, 1, MaxExponent}

Doubles == {DoubleZero} \cup ({0 - 1, 1} \X Exponents)

\* a % b of JavaScript for b > 0: the remainder has the sign of a
remainder(a, b) == IF a >= 0 THEN a % b ELSE 0 - ((0 - a) % b)

\* Angle.fromRadians(rad), rad and the stored value in quarter turns
fromRadians(rad) == remainder(rad, 4)

MaxQuarterTurns == 12

\* new Vector(x, y).normalize()
VectorNormalize ==
    /\ \E x \in Doubles, y \in Doubles :
        last' = [op |-> "normalize", before |-> <<x, y>>, ret |-> NoEvent,
                 threw |-> lengthIsZero(<<x, y>>)]
    /\ UNCHANGED <<queueFrame, eventQueue, nextEventId, calls>>

\* new Vector(x, y).length()
VectorLength ==
    /\ \E x \in Doubles, y \in Doubles :
        last' = [op |-> "length", before |-> <<x, y>>,
                 ret |-> IF lengthIsZero(<<x, y>>) THEN "zero" ELSE "positive",
                 threw |-> FALSE]
    /\ UNCHANGED <<queueFrame, eventQueue, nextEventId, calls>>

\* Angle.fromRadians(rad).toRadians()
AngleFromRadians ==
    /\ \E rad \in (0 - MaxQuarterTurns)..MaxQuarterTurns :
        last' = [op |-> "fromRadians", before |-> rad,
                 ret |-> fromRadians(rad), threw |-> FALSE]
    /\ UNCHANGED <<queueFrame, eventQueue, nextEventId, calls>>

\* the vectors along one axis
AxisVectors ==
    {<<d, DoubleZero>> : d \in Doubles} \cup {<<DoubleZero, d>> : d \in Doubles}

\* length() is Infinity: the square of a component left the range
lengthIsInfinite(v) ==
    \/ doubleTimes(v[1], v[1])[2] > MaxExponent
    \/ doubleTimes(v[2], v[2])[2] > MaxExponent

\* x / len for a vector along one axis whose length is neither 0 nor
\* Infinity: the length is the magnitude of x exactly, the square root of an
\* even power of two being exact
unitComponent(x) == IF x[1] = 0 THEN DoubleZero ELSE <<x[1], 0>>

\* normalize() of a vector along one axis whose length is not 0: a component
\* divided by Infinity is 0
normalized(v) ==
    IF lengthIsInfinite(v) THEN <<DoubleZero, DoubleZero>>
    ELSE <<unitComponent(v[1]), unitComponent(v[2])>>

\* x + y for two components of normalized vectors (0, 1 or -1)
doublePlus(x, y) ==
    IF x[1] = 0 THEN y
    ELSE IF y[1] = 0 THEN x
    ELSE IF x[1] = y[1] THEN <<x[1], x[2] + 1>>
    ELSE DoubleZero

\* plus(other)
vectorPlus(u, v) == <<doublePlus(u[1], v[1]), doublePlus(u[2], v[2])>>

\* initialize(), the body of the third loop for one vertex, awayToPrev and
\* awayToNext being toPrev and toNext before normalize(): whether one of the three
\* normalize() calls throws
bisectorOfDoublesThrows(awayToPrev, awayToNext) ==
    \/ lengthIsZero(awayToPrev)
    \/ lengthIsZero(awayToNext)
    \/ lengthIsZero(vectorPlus(normalized(awayToPrev),
                               normalized(awayToNext)))

\* initialize(), the third loop at one vertex whose neighbours lie along the
\* axes through it.  The difference of two doubles is 0 only when they are
\* equal, so toPrev is (0,0) exactly when the vertex is where its prev is.
InitializeBisector ==
    /\ \E awayToPrev \in AxisVectors, awayToNext \in AxisVectors :
        last' = [op |-> "bisector", before |-> <<awayToPrev, awayToNext>>,
                 ret |-> NoEvent,
                 threw |-> bisectorOfDoublesThrows(awayToPrev, awayToNext)]
    /\ UNCHANGED <<queueFrame, eventQueue, nextEventId, calls>>

NextValues ==
    VectorNormalize \/ VectorLength \/ AngleFromRadians \/ InitializeBisector

SpecValues == InitQueue /\ [][NextValues]_vars

\* C25: Vector.normalize() raises an error when and only when the vector is
\* (0,0); length() returns a value for every input.
C25_NormalizeThrowsOnlyOnZeroVector ==
    /\ last.op = "normalize" =>
            (last.threw <=> last.before = <<DoubleZero, DoubleZero>>)
    /\ last.op = "length" => ~last.threw

\* C26: Angle.fromRadians(r) normalizes r into [-pi, pi] (in quarter turns,
\* [-2, 2]): the stored value always lies in that range, and it equals r
\* whenever r is already in the range.
C26_FromRadiansNormalizesToHalfTurn ==
    last.op = "fromRadians" =>
        /\ 0 - 2 <= last.ret /\ last.ret <= 2
        /\ (0 - 2 <= last.before /\ last.before <= 2) => last.ret = last.before

\* the positions of the current polygon's vertices before the last call
positionsBefore == last.before.polygons[Len(last.before.polygons)]

\* the positions of the current polygon's vertices
positionsNow ==
    positions(vertexObjs, polygonObjs[getCurrentPolygon(wavefront)].vertices)

\* whether qs is ps without the point a at some index and the point b at
\* the cyclically next index
withoutEdge(ps, qs, a, b) ==
    \/ \E i \in 1..(Len(ps) - 1) :
        /\ ps[i] = a /\ ps[i + 1] = b
        /\ qs = SubSeq(ps, 1, i - 1) \o SubSeq(ps, i + 2, Len(ps))
    \/ /\ ps[Len(ps)] = a /\ ps[1] = b
       /\ qs = SubSeq(ps, 2, Len(ps) - 1)

\* C27: after an EdgeEvent is applied (the handler found the edge and
\* changed the vertex sequence), neither endpoint of the collapsed edge is a
\* member of the current vertex sequence, the vertex count has dropped by
\* exactly 2, and the other vertices are in their previous order; for every
\* edge, the wrap-around edge from the last vertex to the first included.
C27_EdgeEventRemovesBothEndpoints ==
    (last.op = "handleEdgeEvent" /\ positionsNow # positionsBefore) =>
        /\ Len(positionsNow) = Len(positionsBefore) - 2
        /\ ~includes(polygonObjs[getCurrentPolygon(wavefront)].vertices,
                     edgeObjs[last.ret.edge].v1)
        /\ ~includes(polygonObjs[getCurrentPolygon(wavefront)].vertices,
                     edgeObjs[last.ret.edge].v2)
        /\ withoutEdge(positionsBefore, positionsNow,
                vertexObjs[edgeObjs[last.ret.edge].v1].position,
                vertexObjs[edgeObjs[last.ret.edge].v2].position)

\* whether qs is ps with the point p inserted after index i
withPointAfter(ps, qs, i, p) ==
    qs = SubSeq(ps, 1, i) \o <<p>> \o SubSeq(ps, i + 1, Len(ps))

\* the last step of the loop of compute() applied a SplitEvent
splitApplied ==
    /\ variant = "Skeleton.ts" /\ last.op = "event" /\ last.applied
    /\ last.ret.type = "SplitEvent"

\* C28: after a SplitEvent is applied, the current vertex sequence is the
\* previous sequence with exactly one new vertex, at the event's
\* intersection point, inserted immediately after the splitting vertex; no
\* other vertex is added, removed or moved, and the vertex count and the
\* edge count both grow by exactly 1.
C28_SplitEventInsertsOneVertex ==
    splitApplied =>
        \E i \in 1..Len(positionsBefore) :
            /\ polygonObjs[getCurrentPolygon(wavefront)].vertices[i]
                = last.ret.vertex
            /\ withPointAfter(positionsBefore, positionsNow, i,
                              last.ret.intersection)
            /\ Len(polygonObjs[getCurrentPolygon(wavefront)].edges)
                = Len(positionsBefore) + 1

\* a SplitEvent was applied to a polygon of at least 6 vertices at a vertex
\* that is not the last of the sequence
C28_Witness ==
    /\ splitApplied
    /\ Len(positionsBefore) >= 6
    /\ Len(positionsNow) = Len(positionsBefore) + 1
    /\ positionsNow[Len(positionsNow)] = positionsBefore[Len(positionsBefore)]

\* the polygon the built variant holds as current
currentPolygon ==
    IF variant = "Skeleton.ts" THEN getCurrentPolygon(wavefront)
    ELSE wavefrontPolygons[Len(wavefrontPolygons)]

\* the candidates the built variant derives from its current polygon, in
\* creation order
currentCandidates ==
    IF variant = "Skeleton.ts"
    THEN initializeEvents(vertexObjs, edgeObjs, polygonObjs[currentPolygon])
    ELSE computeInitialEdgeEvents(vertexObjs, edgeObjs,
                                  polygonObjs[currentPolygon].edges).events
         \o computeInitialSplitEvents(vertexObjs, edgeObjs,
                                      polygonObjs[currentPolygon])

\* C29: after each iteration of the event loop the candidate queue is
\* discarded and rebuilt from the current topology: the queue holds exactly
\* the candidates derived from the current polygon, as the event objects
\* created last (none of them existed before the iteration).
C29_QueueRebuiltAfterEachIteration ==
    last.op = "event" =>
        eventQueue = addAll(<<>>, numbered(currentCandidates,
                                nextEventId - Len(currentCandidates)))

\* the membership part of revalidation: the Edge of the event and its two
\* endpoints (and the Vertex of a SplitEvent) belong to the polygon p
membersOf(p, event) ==
    /\ includes(polygonObjs[p].edges, event.edge)
    /\ includes(polygonObjs[p].vertices, edgeObjs[event.edge].v1)
    /\ includes(polygonObjs[p].vertices, edgeObjs[event.edge].v2)
    /\ event.type = "SplitEvent" =>
            includes(polygonObjs[p].vertices, event.vertex)

\* C30: every event the constructor put in the candidate queue references
\* Edge and Vertex objects of the polygon the engine holds as current (its
\* own clone of the input), so that the event polled first passes the
\* membership tests of revalidation.
C30_QueuedEventsReferenceOwnPolygon ==
    (last.op = "build" /\ ~last.threw) =>
        \A i \in 1..Len(eventQueue) :
            /\ membersOf(currentPolygon, eventQueue[i])
            /\ variant = "logging" =>
                    validateEventState(polygonObjs, wavefrontPolygons,
                                       eventQueue[i])

\* the defining predicate of an event on the current geometry: for an
\* EdgeEvent no endpoint is reflex; for a SplitEvent the vertex is reflex,
\* the edge is not adjacent to it, and the bisector of the vertex meets the
\* line of the edge in the recorded point
definingPredicate(event) ==
    IF event.type = "EdgeEvent"
    THEN /\ ~isReflex(vertexObjs, edgeObjs[event.edge].v1)
         /\ ~isReflex(vertexObjs, edgeObjs[event.edge].v2)
    ELSE /\ isReflex(vertexObjs, event.vertex)
         /\ ~isAdjacent(vertexObjs, edgeObjs, event.edge, event.vertex)
         /\ lineIntersection(vertexObjs[edgeObjs[event.edge].v1].position,
                             vertexObjs[edgeObjs[event.edge].v2].position,
                             vertexObjs[event.vertex].position,
                             vertexObjs[event.vertex].bisector)
            = [found |-> TRUE, point |-> event.intersection]

\* C31: an iteration of the event loop changes the current polygon only if,
\* before it, the edge and the vertices of the polled event were members of
\* the current polygon and the defining predicate of the event held on the
\* current geometry.
C31_OnlyRevalidatedEventsChangeTopology ==
    [][(/\ last'.op = "event"
        /\ \/ polygonObjs'[currentPolygon] # polygonObjs[currentPolygon]
           \/ positions(vertexObjs', polygonObjs'[currentPolygon].vertices)
                # positions(vertexObjs, polygonObjs[currentPolygon].vertices))
       => /\ membersOf(currentPolygon, last'.ret)
          /\ definingPredicate(last'.ret)]_vars

\* an EdgeEvent was applied and changed the vertex sequence
C31_Witness ==
    /\ variant = "Skeleton.ts" /\ last.op = "event" /\ last.applied
    /\ last.ret.type = "EdgeEvent"
    /\ positionsNow # positionsBefore

\* the bisector candidate generation used for the vertex v: the stored one
\* in Skeleton.ts, the one of calculateBisector in the logging variant
usedBisector(v) ==
    IF variant = "Skeleton.ts" THEN vertexObjs[v].bisector
    ELSE loggingCalculateBisector(vertexObjs, v)

\* the sign of s where p3 + s * bisector lies on the line through p1 and
\* p2: s = cross(p1 - p3, p2 - p1) / cross(bisector, p2 - p1)
rayParameterSign(p1, p2, p3, bisector) ==
    sign(cross(minus(p1, p3), minus(p2, p1)))
        * (0 - crossSign(minus(p2, p1), bisector))

\* whether the line through p3 along the bisector meets the closed segment
\* from p1 to p2: the endpoints are not strictly on the same side of it
lineMeetsSegment(p1, p2, p3, bisector) ==
    crossSign(minus(p1, p3), bisector) * crossSign(minus(p2, p3), bisector)
        <= 0

\* C32: every SplitEvent that candidate generation queued has its
\* intersection on the segment of its target edge and on the forward side
\* of the bisector ray of its vertex (intersection = position + s * bisector
\* with s > 0).
C32_SplitIntersectionIsAheadOnTheEdge ==
    (last.op \in {"build", "event"} /\ ~last.threw) =>
        \A i \in 1..Len(eventQueue) :
            eventQueue[i].type = "SplitEvent" =>
                /\ lineMeetsSegment(
                        vertexObjs[edgeObjs[eventQueue[i].edge].v1].position,
                        vertexObjs[edgeObjs[eventQueue[i].edge].v2].position,
                        vertexObjs[eventQueue[i].vertex].position,
                        usedBisector(eventQueue[i].vertex))
                /\ Len(eventQueue[i].intersection) = 2 =>
                        between(
                          vertexObjs[edgeObjs[eventQueue[i].edge].v1].position,
                          vertexObjs[edgeObjs[eventQueue[i].edge].v2].position,
                          eventQueue[i].intersection)
                /\ rayParameterSign(
                        vertexObjs[edgeObjs[eventQueue[i].edge].v1].position,
                        vertexObjs[edgeObjs[eventQueue[i].edge].v2].position,
                        vertexObjs[eventQueue[i].vertex].position,
                        usedBisector(eventQueue[i].vertex)) > 0

\* whether the vectors u and v have the same direction
sameUnit(u, v) == cross(u, v) = 0 /\ dot(u, v) > 0

\* whether two bisectors [a, b] have the same direction: by their integer
\* directions when both are rational; otherwise by their unit vectors, which
\* decides the pairs compared here ([a, b] and [-a, b] are perpendicular)
sameDirection(x, y) ==
    IF x = ZeroBisector \/ y = ZeroBisector THEN x = y
    ELSE IF rationalDirection(x) /\ rationalDirection(y)
    THEN bisectorDirection(x) = bisectorDirection(y)
    ELSE \/ sameUnit(x.a, y.a) /\ sameUnit(x.b, y.b)
         \/ sameUnit(x.a, y.b) /\ sameUnit(x.b, y.a)

\* C33: the bisector the engine computes for a vertex of the polygon it is
\* built from has the direction of the bisector Polygon.initialize() stored
\* in that vertex, normalize(normalize(toPrev) + normalize(toNext)).
C33_EngineBisectorIsVertexBisector ==
    (variant = "logging" /\ last.op = "build" /\ ~last.threw) =>
        \A i \in 1..Len(polygonObjs[input].vertices) :
            sameDirection(
                loggingCalculateBisector(vertexObjs,
                                         polygonObjs[input].vertices[i]),
                vertexObjs[polygonObjs[input].vertices[i]].bisector)

\* the latest stored time before the last call
lastTimeBefore == last.before.times[Len(last.before.times)]

\* C34: propagateToTime(t) raises an error and changes nothing when t < 0;
\* changes nothing when t <= the latest stored time; otherwise appends
\* exactly one entry, with the time t and the vertex positions of the
\* previously latest snapshot, and leaves the earlier entries as they were.
C34_PropagateToTimeAppendsOneSnapshot ==
    last.op = "propagateToTime" =>
        IF lessThan(last.ret, 0)
        THEN last.threw /\ EngineView = last.before
        ELSE IF lessOrEqual(last.ret, lastTimeBefore)
        THEN ~last.threw /\ EngineView = last.before
        ELSE /\ ~last.threw
             /\ EngineView.times = Append(last.before.times, last.ret)
             /\ EngineView.polygons = Append(last.before.polygons,
                                             positionsBefore)

\* the sign of Angle.between(ev, bisector).sin() for the edge vector ev
sineSign(ev, bisector) ==
    IF crossSign(ev, bisector) = 0
       /\ dot(ev, bisectorDirection(bisector)) < 0
    THEN straightAngleSine(ev)
    ELSE crossSign(ev, bisector)

\* C35: for every edge of the engine's polygon whose endpoints are both
\* non-reflex the sines of the angles from the edge direction to the two
\* endpoint bisectors are both <= 0, and candidate generation never queues
\* an EdgeEvent.
C35_NoEdgeEventIsEverQueued ==
    (last.op \in {"build", "event"} /\ ~last.threw) =>
        /\ \A i \in 1..Len(polygonObjs[currentPolygon].edges) :
            ~hasReflexEndpoint(vertexObjs, edgeObjs,
                               polygonObjs[currentPolygon].edges[i]) =>
                /\ sineSign(
                    edgeVector(vertexObjs, edgeObjs,
                               polygonObjs[currentPolygon].edges[i]),
                    vertexObjs[edgeObjs[polygonObjs[currentPolygon].edges[i]]
                                    .v1].bisector) <= 0
                /\ sineSign(
                    edgeVector(vertexObjs, edgeObjs,
                               polygonObjs[currentPolygon].edges[i]),
                    vertexObjs[edgeObjs[polygonObjs[currentPolygon].edges[i]]
                                    .v2].bisector) <= 0
        /\ \A k \in 1..Len(eventQueue) : eventQueue[k].type # "EdgeEvent"

\* the indexes of the edges of polygon p that are adjacent to the vertex v
adjacentEdges(p, v) ==
    {i \in 1..Len(polygonObjs[p].edges) :
        isAdjacent(vertexObjs, edgeObjs, polygonObjs[p].edges[i], v)}

\* whether every vertex of polygon p has min(n, 4) adjacent edges and
\* n - min(n, 4) edges that are not adjacent, n the number of vertices
fourAdjacentEdges(p) ==
    \A j \in 1..Len(polygonObjs[p].vertices) :
        /\ Cardinality(adjacentEdges(p, polygonObjs[p].vertices[j]))
            = IF Len(polygonObjs[p].vertices) < 4
              THEN Len(polygonObjs[p].vertices) ELSE 4
        /\ Len(polygonObjs[p].edges)
            - Cardinality(adjacentEdges(p, polygonObjs[p].vertices[j]))
            = IF Len(polygonObjs[p].vertices) < 4
              THEN 0 ELSE Len(polygonObjs[p].vertices) - 4

\* the SplitEvents of the queue whose vertex is v
splitTargets(v) ==
    {i \in 1..Len(eventQueue) :
        eventQueue[i].type = "SplitEvent" /\ eventQueue[i].vertex = v}

\* C36: in a polygon with n vertices exactly min(n, 4) edges are adjacent to
\* any given vertex; candidate generation queues no SplitEvent for a polygon
\* of at most 4 vertices, and at most n - 4 (one per edge that is not
\* adjacent) for a vertex of a larger one.
C36_FourEdgesAreAdjacentToAVertex ==
    /\ (last.op = "Polygon" /\ ~last.threw) => fourAdjacentEdges(input)
    /\ (last.op \in {"build", "event"} /\ ~last.threw) =>
        /\ fourAdjacentEdges(currentPolygon)
        /\ \A j \in 1..Len(polygonObjs[currentPolygon].vertices) :
            Cardinality(splitTargets(polygonObjs[currentPolygon].vertices[j]))
                <= IF Len(polygonObjs[currentPolygon].vertices) <= 4 THEN 0
                   ELSE Len(polygonObjs[currentPolygon].vertices) - 4

\* build queued, for one vertex of a polygon of 8 vertices, a SplitEvent on
\* each of its 4 edges that are not adjacent
C36_Witness ==
    /\ last.op = "build" /\ ~last.threw /\ variant = "Skeleton.ts"
    /\ Len(polygonObjs[currentPolygon].vertices) = 8
    /\ \E j \in 1..8 :
        Cardinality(splitTargets(polygonObjs[currentPolygon].vertices[j])) = 4

\* C37: compute() ends, by returning or by raising, after applying at most
\* one event: an event is applied only in the first iteration after
\* construction, and an applied event is a SplitEvent that leaves a current
\* polygon for which validateState() is false, its new vertex lying on the
\* target edge, so that compute() raises.
C37_ComputeEndsAfterOneAppliedEvent ==
    /\ []((variant = "Skeleton.ts" /\ last.op = "event" /\ last.applied) =>
            /\ last.ret.type = "SplitEvent"
            /\ last.threw
            /\ ~validateState(vertexObjs, edgeObjs, polygonObjs, wavefront)
            /\ \E i \in 1..Len(positionsNow) :
                positionsNow[i] = last.ret.intersection)
    /\ [][(variant = "Skeleton.ts" /\ last'.op = "event" /\ last'.applied)
            => pc = "built"]_vars

\* the steps of the engine: construction and the event loop
EngineSteps == {"build", "event", "compute", "processEvents"}

\* C38: Skeleton.build and the event loop never change the polygon the
\* caller supplied (its vertex sequence, the positions and the prev/next
\* links of its vertices, its edge list): the only polygon a step of the
\* engine changes is the current polygon of the engine, which is not the
\* caller's.
C38_EngineLeavesCallerPolygonAlone ==
    [][last'.op \in EngineSteps =>
        /\ sourceView' = sourceView
        /\ \A p \in 1..Len(polygonObjs) :
            polygonObjs'[p] # polygonObjs[p] =>
                p # input /\ p = currentPolygon]_vars

\* the loop applied a SplitEvent: the engine's polygon has one vertex more
\* than the caller's
C38_Witness ==
    /\ splitApplied
    /\ Len(polygonObjs[currentPolygon].vertices)
        = Len(polygonObjs[input].vertices) + 1

\* whether the vectors u and v along the axes point in opposite directions
oppositeDirections(u, v) ==
    \/ u[1][1] * v[1][1] = 0 - 1 /\ u[2] = DoubleZero /\ v[2] = DoubleZero
    \/ u[2][1] * v[2][1] = 0 - 1 /\ u[1] = DoubleZero /\ v[1] = DoubleZero

\* C39: Polygon.initialize() raises the zero-vector error at a vertex exactly
\* when the vertex coincides with its prev or its next neighbour or when its
\* two neighbours lie in exactly opposite directions from it.
C39_ZeroVectorErrorExactlyAtDegenerateVertex ==
    last.op = "bisector" =>
        (last.threw <=>
            \/ last.before[1] = <<DoubleZero, DoubleZero>>
            \/ last.before[2] = <<DoubleZero, DoubleZero>>
            \/ oppositeDirections(last.before[1], last.before[2]))
====
